---- MODULE Spec2Model ----
(***************************************************************************)
(* QDQ insertion engine of onnxruntime/python/tools/quantization/          *)
(* qdq_quantizer.py (class QDQQuantizer), as a state machine.              *)
(*                                                                         *)
(* One run of quantize_model: the marking loop over the graph's nodes (the *)
(* per-operator policies call the registry API), the non-shared pass, the  *)
(* shared-parameter loop, the bias pass, the deferred node removal and the *)
(* cleanup.  A raised Python exception is pc = "error" with err naming it; *)
(* what the handler changed before raising stays changed.                  *)
(***************************************************************************)
EXTENDS Integers, Sequences, FiniteSets, TLC

VARIABLES
    nodes,                          \* model.nodes(): sequence of node records
    initializers,                   \* model.initializer(): name -> [data_type]
    tensors_to_quantize,            \* ordered dict: sequence of [name, info]
    bias_to_quantize,               \* list of (node, bias, input, weight, beta)
    nodes_to_remove,                \* list of node names
    tensor_to_its_receiving_nodes,  \* tensor name -> sequence of node names
    quantized_value_map,            \* tensor name -> QDQTensorQuantizedValue
    dedicated_qdq_pair,             \* extra option DedicatedQDQPair
    add_qdq_pair_to_weight,         \* extra option AddQDQPairToWeight
    quantize_bias,                  \* extra option QuantizeBias
    opset_version,                  \* the graph's declared opset version
    quantization_params,            \* tensor name -> QDQTensorQuantParams
    tensor_quant_overrides,         \* the tensors with user-specified overrides
    per_channel,                    \* constructor argument per_channel
    pc,                             \* position in quantize_model
    node_idx,                       \* marking loop: index of the node visited
    visiting,                       \* marking loop: the node's policy is running
    marks,                          \* number of registry calls made so far
    scan_copy,                      \* tensors_to_quantize.copy() being iterated
    scan_i,                         \* number of items of scan_copy iterated
    bias_i,                         \* number of items of bias_to_quantize iterated
    quantized_value,                \* local of the sharing loop: last get_for_consumer result
    quant_provider,                 \* local of the sharing loop: the provider resolved last
    err                             \* the exception raised, "" if none

vars == <<nodes, initializers, tensors_to_quantize, bias_to_quantize, nodes_to_remove,
          tensor_to_its_receiving_nodes, quantized_value_map, dedicated_qdq_pair,
          add_qdq_pair_to_weight, quantize_bias, opset_version, quantization_params,
          tensor_quant_overrides, per_channel, pc, node_idx, visiting,
          marks, scan_copy, scan_i, bias_i, quantized_value, quant_provider, err>>

config == <<dedicated_qdq_pair, add_qdq_pair_to_weight, quantize_bias, opset_version,
            quantization_params, tensor_quant_overrides, per_channel>>

graph == <<nodes, initializers>>

registry == <<tensors_to_quantize, bias_to_quantize, nodes_to_remove>>

locals == <<quantized_value, quant_provider>>

(***************************************************************************)
(* Bounds of the model.                                                    *)
(***************************************************************************)
\* Registry calls (quantize_*_tensor, remove_node, ...) the policies make in one run.
MaxMarks == 3

\* Extra options that differ from their default in one run.
MaxNonDefault == 1

(***************************************************************************)
(* Optional values: None is the empty sequence, a present value a          *)
(* one-element sequence.                                                   *)
(***************************************************************************)
None == <<>>

Some(v) == <<v>>

\* Python dict helpers on TLA+ functions.
DictSet(d, k, v) == [x \in DOMAIN d \cup {k} |-> IF x = k THEN v ELSE d[x]]

DictDel(d, k) == [x \in DOMAIN d \ {k} |-> d[x]]

Range(s) == {s[i] : i \in DOMAIN s}

(***************************************************************************)
(* The graph under quantization.                                           *)
(*   N1: Conv(X, W, B) -> Y, U, K      N2: Reshape(Y, S) -> Z              *)
(*   N3: Sum(Z, X, Z, U, K) -> O                                           *)
(* X is the graph input, Z and O are graph outputs, W and B are float      *)
(* initializers and S is an integer one; O and K are integer tensors and U *)
(* has no value_info (its type was not inferred).  Z is read twice by N3,  *)
(* X is read by two nodes, Y, U and K by one.                              *)
(***************************************************************************)
Node(name, op_type, input, output, axis) ==
    [name |-> name, op_type |-> op_type, input |-> input, output |-> output, axis |-> axis]

InitialNodes ==
    << Node("N1", "Conv", <<"X", "W", "B">>, <<"Y", "U", "K">>, None),
       Node("N2", "Reshape", <<"Y", "S">>, <<"Z">>, None),
       Node("N3", "Sum", <<"Z", "X", "Z", "U", "K">>, <<"O">>, None) >>

NodeNames == {InitialNodes[i].name : i \in DOMAIN InitialNodes}

\* An initializer: its element type and its number of elements.
TensorProto(data_type, size) == [data_type |-> data_type, size |-> size]

\* A scale or zero-point initializer: its element type, its length and the value of its
\* elements.
ScaleProto(data_type, size, value) == [data_type |-> data_type, size |-> size, value |-> value]

\* Channels of W along axis 0.
Channels == 2

InitialInitializers ==
    [t \in {"W", "B", "S"} |-> TensorProto(IF t = "S" THEN "INT64" ELSE "FLOAT", Channels)]

weight_qType == "INT8"

activation_qType == "UINT8"

graph_inputs == {"X"}

graph_outputs == {"Z", "O"}

value_infos == [t \in {"X", "Y", "Z", "O", "K"} |-> IF t \in {"O", "K"} THEN "INT32" ELSE "FLOAT"]

\* calculate_graph_quantization_params: one entry per calibrated tensor.
QuantizationParams(zero_point, scale, quant_type) ==
    [zero_point |-> zero_point, scale |-> scale, quant_type |-> quant_type]

QDQTensorQuantParams(original, converted, converted_recv_nodes) ==
    [original |-> original, converted |-> converted, converted_recv_nodes |-> converted_recv_nodes]

\* Calibration without overrides: one parameter set for each float activation.
PlainParams ==
    [t \in {"X", "Y", "Z"} |->
        QDQTensorQuantParams(QuantizationParams(0, 2, "UINT8"), None, None)]

\* TensorQuantOverrides with "convert" entries: X is converted for N3 only, Z for all its
\* consumers; Y was not calibrated.
ConvertParams ==
    [t \in {"X", "Z"} |->
        QDQTensorQuantParams(QuantizationParams(0, 2, "UINT8"),
                             Some(QuantizationParams(0, 3, "UINT16")),
                             IF t = "X" THEN Some({"N3"}) ELSE None)]

\* TensorQuantOverrides whose "convert" entries name N1 only: X is converted for one of
\* its two consumers, Z for a node that does not read it; Y was not calibrated.
StrayParams ==
    [t \in {"X", "Z"} |->
        QDQTensorQuantParams(QuantizationParams(0, 2, "UINT8"),
                             Some(QuantizationParams(0, 3, "UINT16")), Some({"N1"}))]

\* TensorQuantOverrides whose "convert" entries name subsets of the consumers: X is
\* converted for both of its consumers, Z for none of them; Y was not calibrated.
SubsetParams ==
    [t \in {"X", "Z"} |->
        QDQTensorQuantParams(QuantizationParams(0, 2, "UINT8"),
                             Some(QuantizationParams(0, 3, "UINT16")),
                             IF t = "X" THEN Some({"N1", "N3"}) ELSE Some({}))]

\* tensor_quant_overrides of a configuration: the "convert" entries of the parameters come
\* from the overrides of their tensors.
Overridden(params) == {t \in DOMAIN params : params[t].converted # None}

(***************************************************************************)
(* quant_utils name helpers.                                               *)
(***************************************************************************)
add_quant_suffix(tensor_name) == tensor_name \o "_QuantizeLinear"

add_quant_input_suffix(tensor_name) == tensor_name \o "_QuantizeLinear_Input"

add_quant_output_suffix(tensor_name) == tensor_name \o "_QuantizeLinear_Output"

add_dequant_suffix(tensor_name) == tensor_name \o "_DequantizeLinear"

add_dequant_output_suffix(tensor_name) == tensor_name \o "_DequantizeLinear_Output"

(***************************************************************************)
(* Graph container primitives (ONNXModel).                                 *)
(***************************************************************************)
Replace(s, old, new) == [i \in DOMAIN s |-> IF s[i] = old THEN new ELSE s[i]]

replace_node_input(g, node_name, old, new) ==
    [i \in DOMAIN g |->
        IF g[i].name = node_name THEN [g[i] EXCEPT !.input = Replace(@, old, new)] ELSE g[i]]

replace_input_of_all_nodes(g, old, new) ==
    [i \in DOMAIN g |-> [g[i] EXCEPT !.input = Replace(@, old, new)]]

replace_input_of_nodes(g, old, new, node_names) ==
    [i \in DOMAIN g |->
        IF g[i].name \in node_names THEN [g[i] EXCEPT !.input = Replace(@, old, new)] ELSE g[i]]

replace_output_of_all_nodes(g, old, new) ==
    [i \in DOMAIN g |-> [g[i] EXCEPT !.output = Replace(@, old, new)]]

is_graph_output(tensor_name) == tensor_name \in graph_outputs

is_graph_input(tensor_name) == tensor_name \in graph_inputs

is_input_a_initializer(inits, tensor_name) == tensor_name \in DOMAIN inits

\* input_name_to_nodes()[t]: one entry per input of a node that names t.
input_name_to_nodes(g, t) ==
    UNION {{<<i, j>> : j \in {k \in DOMAIN g[i].input : g[i].input[k] = t}} : i \in DOMAIN g}

(***************************************************************************)
(* Records of the engine.                                                  *)
(***************************************************************************)
QDQQuantParamProvider(input_name, node_name) == [input_name |-> input_name, node_name |-> node_name]

QDQTensorQuantInfo(tensor_type, quant_para_provider, axis, data_type) ==
    [tensor_type |-> tensor_type, quant_para_provider |-> quant_para_provider, axis |-> axis,
     is_shared |-> quant_para_provider # None, data_type |-> data_type]

QuantizedValue(name, q_name, scale_name, zp_name, value_type, axis, node_type, node_qtype, scale_type) ==
    [original_name |-> name, q_name |-> q_name, scale_name |-> scale_name, zp_name |-> zp_name,
     value_type |-> value_type, axis |-> axis, node_type |-> node_type, node_qtype |-> node_qtype,
     scale_type |-> scale_type]

QDQTensorQuantizedValue(original, converted, converted_recv_nodes) ==
    [original |-> original, converted |-> converted, converted_recv_nodes |-> converted_recv_nodes]

\* get_for_consumer with a fault: without a receiver list, the original value is returned.
get_for_consumer_NoList(self, consumer_node_name) ==
    IF self.converted = None THEN self.original
    ELSE IF self.converted_recv_nodes = None THEN self.original
    ELSE IF consumer_node_name \in self.converted_recv_nodes[1] THEN self.converted[1]
    ELSE self.original

\* QDQTensorQuantizedValue.get_for_consumer
get_for_consumer(self, consumer_node_name) ==
    IF self.converted = None THEN self.original
    ELSE IF self.converted_recv_nodes = None THEN self.converted[1]
    ELSE IF consumer_node_name \in self.converted_recv_nodes[1] THEN self.converted[1]
    ELSE self.original

(***************************************************************************)
(* tensors_to_quantize: a Python dict, which keeps insertion order.        *)
(***************************************************************************)
Keys(d) == {d[i].name : i \in DOMAIN d}

Has(d, k) == k \in Keys(d)

Get(d, k) == (CHOOSE i \in DOMAIN d : d[i].name = k)

\* d[k] = info: an existing key keeps its place, a new key goes last.
Put(d, k, info) ==
    IF Has(d, k)
    THEN [i \in DOMAIN d |-> IF d[i].name = k THEN [name |-> k, info |-> info] ELSE d[i]]
    ELSE Append(d, [name |-> k, info |-> info])

\* Del with a fault: the entry stays.
Del_Keep(d, k) == d

\* del d[k]
Del(d, k) == SelectSeq(d, LAMBDA e : e.name # k)

\* _get_tensor_type
_get_tensor_type(inits, tensor_name) ==
    IF tensor_name \in DOMAIN inits THEN inits[tensor_name].data_type
    ELSE IF tensor_name \in DOMAIN value_infos THEN value_infos[tensor_name]
    ELSE "None"

\* _is_tensor_quantizable with a fault: every tensor is taken.
_is_tensor_quantizable_Always(inits, tensor_name) == TRUE

\* _is_tensor_quantizable
_is_tensor_quantizable(inits, tensor_name) ==
    IF tensor_name \in DOMAIN inits THEN inits[tensor_name].data_type \in {"FLOAT", "FLOAT16"}
    ELSE IF tensor_name \in DOMAIN value_infos THEN value_infos[tensor_name] \in {"FLOAT", "FLOAT16"}
    ELSE FALSE

\* __quantize_tensor with a fault: a shared registration yields to an existing entry.
quantize_tensor_FirstWins(ttq, inits, tensor_name, quant_sharing_provider, tensor_type) ==
    IF _is_tensor_quantizable(inits, tensor_name) /\ ~Has(ttq, tensor_name)
    THEN Put(ttq, tensor_name,
             QDQTensorQuantInfo(tensor_type, quant_sharing_provider, None,
                                _get_tensor_type(inits, tensor_name)))
    ELSE ttq

\* __quantize_tensor: the registry after the call.
quantize_tensor(ttq, inits, tensor_name, quant_sharing_provider, tensor_type) ==
    IF _is_tensor_quantizable(inits, tensor_name)
    THEN IF quant_sharing_provider # None
         THEN Put(ttq, tensor_name,
                  QDQTensorQuantInfo(tensor_type, quant_sharing_provider, None,
                                     _get_tensor_type(inits, tensor_name)))
         ELSE IF ~Has(ttq, tensor_name)
              THEN Put(ttq, tensor_name,
                       QDQTensorQuantInfo(tensor_type, None, None, _get_tensor_type(inits, tensor_name)))
              ELSE ttq
    ELSE ttq

(***************************************************************************)
(* Init: the state after QDQQuantizer.__init__.  The defaults of the extra *)
(* options are DedicatedQDQPair = False, AddQDQPairToWeight = False and    *)
(* QuantizeBias = True, and no TensorQuantOverrides; the graph's opset is   *)
(* 13 unless it is an older one.                                           *)
(***************************************************************************)
NonDefault(dedicated, pair_to_weight, bias, opset, params, overrides) ==
    (IF dedicated THEN 1 ELSE 0) + (IF pair_to_weight THEN 1 ELSE 0)
        + (IF bias THEN 0 ELSE 1) + (IF opset = 13 THEN 0 ELSE 1)
        + (IF params = PlainParams THEN 0 ELSE 1)
        + (IF overrides = Overridden(params) THEN 0 ELSE 1)

Init ==
    /\ nodes = InitialNodes
    /\ initializers = InitialInitializers
    /\ tensors_to_quantize = <<>>
    /\ bias_to_quantize = <<>>
    /\ nodes_to_remove = <<>>
    /\ tensor_to_its_receiving_nodes = <<>>
    /\ quantized_value_map = <<>>
    /\ dedicated_qdq_pair \in BOOLEAN
    /\ add_qdq_pair_to_weight \in BOOLEAN
    /\ quantize_bias \in BOOLEAN
    /\ opset_version \in {12, 13}
    /\ quantization_params \in {PlainParams, ConvertParams, StrayParams, SubsetParams}
    /\ tensor_quant_overrides \in {Overridden(quantization_params),
                                   Overridden(quantization_params) \cup {"B"}}
    /\ per_channel \in BOOLEAN
    /\ per_channel => "B" \in tensor_quant_overrides
    /\ NonDefault(dedicated_qdq_pair, add_qdq_pair_to_weight, quantize_bias, opset_version,
                  quantization_params, tensor_quant_overrides) <= MaxNonDefault
    /\ pc = "mark"
    /\ node_idx = 1
    /\ visiting = FALSE
    /\ marks = 0
    /\ scan_copy = <<>>
    /\ scan_i = 0
    /\ bias_i = 0
    /\ quantized_value = None
    /\ quant_provider = None
    /\ err = ""

(***************************************************************************)
(* quantize_model, the marking loop: for node in self.model.nodes().       *)
(***************************************************************************)
CurNode == nodes[node_idx]

Local(n) == Range(n.input) \cup Range(n.output)

\* The tensors of a node that are not initializers.
Activations(n) == Local(n) \ DOMAIN InitialInitializers

SecondInput(n) == IF Len(n.input) >= 2 THEN {n.input[2]} ELSE {}

Marking == pc = "mark" /\ node_idx <= Len(InitialNodes)

\* should_quantize_node(node) is False: the node is passed over.
SkipNode ==
    /\ Marking /\ ~visiting
    /\ node_idx' = node_idx + 1
    /\ UNCHANGED <<graph, registry, tensor_to_its_receiving_nodes, quantized_value_map, config,
                   pc, visiting, marks, scan_copy, scan_i, bias_i, locals, err>>

\* should_quantize_node(node) is True: op_quantizer.quantize() starts.
BeginNode ==
    /\ Marking /\ ~visiting
    /\ visiting' = TRUE
    /\ UNCHANGED <<graph, registry, tensor_to_its_receiving_nodes, quantized_value_map, config,
                   pc, node_idx, marks, scan_copy, scan_i, bias_i, locals, err>>

PolicyCall == Marking /\ visiting /\ marks < MaxMarks

MarkFrame ==
    /\ marks' = marks + 1
    /\ UNCHANGED <<tensor_to_its_receiving_nodes, quantized_value_map, config, pc, node_idx,
                   visiting, scan_copy, scan_i, bias_i, locals, err>>

quantize_activation_tensor ==
    /\ PolicyCall
    /\ \E tensor_name \in Activations(CurNode) :
          tensors_to_quantize' =
              quantize_tensor(tensors_to_quantize, initializers, tensor_name, None, "ACTIVATION")
    /\ MarkFrame
    /\ UNCHANGED <<graph, bias_to_quantize, nodes_to_remove>>

quantize_output_same_as_input ==
    /\ PolicyCall
    /\ \E output_name \in Activations(CurNode) \cup SecondInput(CurNode),
          input_name \in Range(CurNode.input) \ DOMAIN InitialInitializers :
          tensors_to_quantize' =
              quantize_tensor(tensors_to_quantize, initializers, output_name,
                              Some(QDQQuantParamProvider(input_name, CurNode.name)), "ACTIVATION")
    /\ MarkFrame
    /\ UNCHANGED <<graph, bias_to_quantize, nodes_to_remove>>

quantize_weight_tensor ==
    /\ PolicyCall
    /\ \E tensor_name \in Range(CurNode.input) \cap DOMAIN initializers :
          tensors_to_quantize' =
              quantize_tensor(tensors_to_quantize, initializers, tensor_name, None, "WEIGHT")
    /\ MarkFrame
    /\ UNCHANGED <<graph, bias_to_quantize, nodes_to_remove>>

\* quantize_weight_tensor_per_channel: the registry after the call.
quantize_tensor_per_channel(ttq, inits, tensor_name, axis) ==
    IF tensor_name \in DOMAIN inits
    THEN IF inits[tensor_name].data_type \in {"FLOAT", "FLOAT16"}
         THEN Put(ttq, tensor_name,
                  QDQTensorQuantInfo("WEIGHT", None, Some(axis), inits[tensor_name].data_type))
         ELSE ttq
    ELSE ttq

\* quantize_weight_tensor_per_channel with a fault: the tensor is not looked up among the
\* initializers.
quantize_weight_tensor_per_channel_Any ==
    /\ PolicyCall
    /\ \E tensor_name \in SecondInput(CurNode), axis \in {0} :
          tensors_to_quantize' =
              Put(tensors_to_quantize, tensor_name,
                  QDQTensorQuantInfo("WEIGHT", None, Some(axis),
                                     _get_tensor_type(initializers, tensor_name)))
    /\ MarkFrame
    /\ UNCHANGED <<graph, bias_to_quantize, nodes_to_remove>>

quantize_weight_tensor_per_channel ==
    /\ PolicyCall
    /\ \E tensor_name \in SecondInput(CurNode), axis \in {0} :
          tensors_to_quantize' =
              quantize_tensor_per_channel(tensors_to_quantize, initializers, tensor_name, axis)
    /\ MarkFrame
    /\ UNCHANGED <<graph, bias_to_quantize, nodes_to_remove>>

\* The item quantize_bias_tensor queues.
PendingBias(node_name, bias_name, input_name, weight_name, beta) ==
    [node_name |-> node_name, bias_name |-> bias_name, input_name |-> input_name,
     weight_name |-> weight_name, beta |-> beta]

\* quantize_bias_tensor with a fault: the overrides of the bias are not looked at.
BiasRegistration_NoOverrides(ttq, btq, inits, bias) ==
    [ttq |-> ttq,
     btq |-> IF bias.bias_name \in DOMAIN inits
                /\ inits[bias.bias_name].data_type \in {"FLOAT", "FLOAT16"}
             THEN Append(btq, bias)
             ELSE btq]

\* quantize_bias_tensor: tensors_to_quantize and bias_to_quantize after the call.
BiasRegistration(ttq, btq, inits, bias) ==
    IF bias.bias_name \in tensor_quant_overrides
    THEN [ttq |-> IF per_channel
                  THEN quantize_tensor_per_channel(ttq, inits, bias.bias_name, 0)
                  ELSE quantize_tensor(ttq, inits, bias.bias_name, None, "WEIGHT"),
          btq |-> btq]
    ELSE [ttq |-> ttq,
          btq |-> IF bias.bias_name \in DOMAIN inits
                     /\ inits[bias.bias_name].data_type \in {"FLOAT", "FLOAT16"}
                  THEN Append(btq, bias)
                  ELSE btq]

\* quantize_bias_tensor(node.name, node.input[2], node.input[0], node.input[1], beta).
quantize_bias_tensor ==
    /\ PolicyCall
    /\ Len(CurNode.input) >= 3
    /\ \E beta \in {1, 2} :
        LET bias == PendingBias(CurNode.name, CurNode.input[3], CurNode.input[1],
                                CurNode.input[2], beta)
            after == BiasRegistration(tensors_to_quantize, bias_to_quantize, initializers, bias)
        IN /\ tensors_to_quantize' = after.ttq
           /\ bias_to_quantize' = after.btq
    /\ MarkFrame
    /\ UNCHANGED <<graph, nodes_to_remove>>

\* remove_node with a fault: the node leaves the graph at once.
remove_node_Eager ==
    /\ PolicyCall
    /\ nodes' = SelectSeq(nodes, LAMBDA n : n.name # CurNode.name)
    /\ nodes_to_remove' = Append(nodes_to_remove, CurNode.name)
    /\ MarkFrame
    /\ UNCHANGED <<initializers, tensors_to_quantize, bias_to_quantize>>

remove_node ==
    /\ PolicyCall
    /\ nodes_to_remove' = Append(nodes_to_remove, CurNode.name)
    /\ MarkFrame
    /\ UNCHANGED <<graph, tensors_to_quantize, bias_to_quantize>>

\* The test of try_replacing_upstream_output, for an upstream output that some node reads.
UpstreamReplaceable(g, params, upstream_output_name, output_name) ==
    /\ output_name \in DOMAIN params
    /\ Cardinality(input_name_to_nodes(g, upstream_output_name)) = 1
    /\ ~is_graph_output(upstream_output_name)
    /\ ~is_graph_input(upstream_output_name)

\* The policies call it with the first input and the first output of the node, so the
\* upstream output has a key in input_name_to_nodes().
try_replacing_upstream_output ==
    /\ PolicyCall
    /\ LET upstream_output_name == CurNode.input[1]
           output_name == CurNode.output[1]
       IN IF UpstreamReplaceable(nodes, quantization_params, upstream_output_name, output_name)
          THEN /\ nodes' = replace_output_of_all_nodes(nodes, upstream_output_name, output_name)
               /\ tensors_to_quantize' = Del(tensors_to_quantize, upstream_output_name)
          ELSE UNCHANGED <<nodes, tensors_to_quantize>>
    /\ MarkFrame
    /\ UNCHANGED <<initializers, bias_to_quantize, nodes_to_remove>>

\* The policy returned: the node is recorded as a consumer of each of its inputs.
RecordReceivingNodes(m, n, k) ==
    IF k \in DOMAIN m THEN DictSet(m, k, Append(m[k], n)) ELSE DictSet(m, k, <<n>>)

RECURSIVE RecordInputs(_, _, _)
RecordInputs(m, n, inputs) ==
    IF inputs = <<>> THEN m
    ELSE RecordInputs(RecordReceivingNodes(m, n, Head(inputs)), n, Tail(inputs))

EndNode ==
    /\ Marking /\ visiting
    /\ tensor_to_its_receiving_nodes' =
           RecordInputs(tensor_to_its_receiving_nodes, CurNode.name, CurNode.input)
    /\ node_idx' = node_idx + 1
    /\ visiting' = FALSE
    /\ UNCHANGED <<graph, registry, quantized_value_map, config, pc, marks, scan_copy, scan_i,
                   bias_i, locals, err>>

\* The marking loop is over: _quantize_normal_tensors copies the registry.
EndMarking ==
    /\ pc = "mark" /\ node_idx > Len(InitialNodes)
    /\ pc' = "normal"
    /\ scan_copy' = tensors_to_quantize
    /\ scan_i' = 0
    /\ UNCHANGED <<graph, registry, tensor_to_its_receiving_nodes, quantized_value_map, config,
                   node_idx, visiting, marks, bias_i, locals, err>>

(***************************************************************************)
(* Graph rewriting.  The helpers below take and return the part of the     *)
(* state an insertion writes: S.nodes, S.initializers, S.qvm (the          *)
(* quantized_value_map) and S.err (the exception raised, "" if none).      *)
(***************************************************************************)
St(g, inits, qvm, e) == [nodes |-> g, initializers |-> inits, qvm |-> qvm, err |-> e]

Raise(S, e) == [S EXCEPT !.err = e]

add_node(S, node) == [S EXCEPT !.nodes = Append(@, node)]

add_initializer(S, name, tensor) == [S EXCEPT !.initializers = DictSet(@, name, tensor)]

\* SetRecord with a fault: the map is rebuilt around the new record.
SetRecord_Reset(S, name, record) == [S EXCEPT !.qvm = DictSet(<<>>, name, record)]

\* self.quantized_value_map[name] = record
SetRecord(S, name, record) == [S EXCEPT !.qvm = DictSet(@, name, record)]

_create_q_node(S, q_input, q_output, quant_node_name, scale_name, zp_name, axis) ==
    add_node(S, Node(quant_node_name, "QuantizeLinear", <<q_input, scale_name, zp_name>>,
                     <<q_output>>, axis))

_create_dq_node(S, dq_input, dq_output, dequant_node_name, scale_name, zp_name, axis) ==
    add_node(S, Node(dequant_node_name, "DequantizeLinear", <<dq_input, scale_name, zp_name>>,
                     <<dq_output>>, axis))

_create_qdq_nodes(S, q_input, q_output, quant_node_name, dq_input, dq_output, dequant_node_name, scale_name, zp_name, axis) ==
    _create_dq_node(_create_q_node(S, q_input, q_output, quant_node_name, scale_name, zp_name, axis),
                    dq_input, dq_output, dequant_node_name, scale_name, zp_name, axis)

\* The scale that quantize_initializer_impl computes from the data of a weight.
WeightScale == 5

\* BaseQuantizer.quantize_initializer_impl / quantize_weight_per_channel_impl: the scale and
\* zero-point initializers, and the quantized weight unless the float weight is kept.
quantize_weight_impl(S, weight_name, qType, size, keep_float_weight) ==
    LET S1 == add_initializer(S, weight_name \o "_scale",
                              ScaleProto(S.initializers[weight_name].data_type, size, WeightScale))
        S2 == add_initializer(S1, weight_name \o "_zero_point", ScaleProto(qType, size, 0))
    IN IF keep_float_weight THEN S2
       ELSE add_initializer(S2, weight_name \o "_quantized",
                            TensorProto(qType, S.initializers[weight_name].size))

\* quantize_initializer with a fault: a weight that has a record is quantized again.
quantize_initializer_Again(S, weight_name, qType, size, keep_float_weight) ==
    LET S1 == quantize_weight_impl(S, weight_name, qType, size, keep_float_weight)
        value == QuantizedValue(weight_name, weight_name \o "_quantized",
                                weight_name \o "_scale", weight_name \o "_zero_point",
                                "Initializer", None, "None", "None", "None")
    IN SetRecord(S1, weight_name, QDQTensorQuantizedValue(value, None, None))

\* quantize_initializer and quantize_weight_per_channel: a weight that has a record is left
\* alone; otherwise the record of the new initializers is stored.
quantize_initializer(S, weight_name, qType, size, keep_float_weight) ==
    IF weight_name \in DOMAIN S.qvm THEN S
    ELSE LET S1 == quantize_weight_impl(S, weight_name, qType, size, keep_float_weight)
             value == QuantizedValue(weight_name, weight_name \o "_quantized",
                                     weight_name \o "_scale", weight_name \o "_zero_point",
                                     "Initializer", None, "None", "None", "None")
         IN SetRecord(S1, weight_name, QDQTensorQuantizedValue(value, None, None))

\* The opset guard with a fault: per-channel weights are let through.
PerChannelUnsupported_Never(axis) == FALSE

\* The guard of the per-channel path: Q/DQ with an axis needs opset 13.
PerChannelUnsupported(axis) == axis # None /\ opset_version < 13

\* _add_qdq_pair_for_initializer with a fault: the consumers keep reading the weight.
_add_qdq_pair_for_initializer_NoRewire(S, weight_name, tensor_type, axis) ==
    IF PerChannelUnsupported(axis)
    THEN Raise(S, "ValueError: per-channel requires opset 13")
    ELSE
      LET qtype == IF axis # None
                   THEN (IF activation_qType = "UINT8" THEN "INT8" ELSE activation_qType)
                   ELSE (IF tensor_type = "WEIGHT" THEN weight_qType ELSE activation_qType)
          S1 == quantize_initializer(S, weight_name, qtype,
                                     IF axis # None THEN Channels ELSE 1, add_qdq_pair_to_weight)
          stored == S1.qvm[weight_name].original
          weight_dequant_output == add_dequant_output_suffix(weight_name)
          S2 == S1
      IN IF add_qdq_pair_to_weight
         THEN _create_qdq_nodes(S2, weight_name, add_quant_output_suffix(weight_name),
                                add_quant_suffix(weight_name), add_quant_output_suffix(weight_name),
                                weight_dequant_output, add_dequant_suffix(weight_name),
                                stored.scale_name, stored.zp_name, axis)
         ELSE _create_dq_node(S2, stored.q_name, weight_dequant_output,
                              add_dequant_suffix(weight_name), stored.scale_name, stored.zp_name, axis)

_add_qdq_pair_for_initializer(S, weight_name, tensor_type, axis) ==
    IF PerChannelUnsupported(axis)
    THEN Raise(S, "ValueError: per-channel requires opset 13")
    ELSE
      LET qtype == IF axis # None
                   THEN (IF activation_qType = "UINT8" THEN "INT8" ELSE activation_qType)
                   ELSE (IF tensor_type = "WEIGHT" THEN weight_qType ELSE activation_qType)
          S1 == quantize_initializer(S, weight_name, qtype,
                                     IF axis # None THEN Channels ELSE 1, add_qdq_pair_to_weight)
          stored == S1.qvm[weight_name].original
          weight_dequant_output == add_dequant_output_suffix(weight_name)
          S2 == [S1 EXCEPT !.nodes = replace_input_of_all_nodes(@, weight_name, weight_dequant_output)]
      IN IF add_qdq_pair_to_weight
         THEN _create_qdq_nodes(S2, weight_name, add_quant_output_suffix(weight_name),
                                add_quant_suffix(weight_name), add_quant_output_suffix(weight_name),
                                weight_dequant_output, add_dequant_suffix(weight_name),
                                stored.scale_name, stored.zp_name, axis)
         ELSE _create_dq_node(S2, stored.q_name, weight_dequant_output,
                              add_dequant_suffix(weight_name), stored.scale_name, stored.zp_name, axis)

\* The consumers recorded for a tensor during marking ([] when it has no entry).
ReceivingNodes(tensor_name) ==
    IF tensor_name \in DOMAIN tensor_to_its_receiving_nodes
    THEN tensor_to_its_receiving_nodes[tensor_name] ELSE <<>>

\* One turn of the dedicated-pair loop: pair i, wired to the i-th recorded consumer.
DedicatedPair(S, tensor_name, scale_name, zp_name, data_type, i) ==
    LET postfix == "_" \o ToString(i)
        q_out == add_quant_output_suffix(tensor_name) \o postfix
        dq_out == add_dequant_output_suffix(tensor_name) \o postfix
        S1 == _create_qdq_nodes(S, tensor_name, q_out, add_quant_suffix(tensor_name) \o postfix,
                                q_out, dq_out, add_dequant_suffix(tensor_name) \o postfix,
                                scale_name, zp_name, None)
        S2 == [S1 EXCEPT !.nodes = replace_node_input(@, ReceivingNodes(tensor_name)[i],
                                                      tensor_name, dq_out)]
    IN IF i = 1
       THEN SetRecord(S2, tensor_name,
                QDQTensorQuantizedValue(
                    QuantizedValue(tensor_name, dq_out, scale_name, zp_name, "Input", None,
                                   "None", "None", data_type), None, None))
       ELSE S2

RECURSIVE DedicatedPairs(_, _, _, _, _, _)
DedicatedPairs(S, tensor_name, scale_name, zp_name, data_type, i) ==
    IF i > Len(ReceivingNodes(tensor_name)) THEN S
    ELSE DedicatedPairs(DedicatedPair(S, tensor_name, scale_name, zp_name, data_type, i),
                        tensor_name, scale_name, zp_name, data_type, i + 1)

\* The single pair with a fault: the producers of a graph output keep writing its name.
SinglePair_NoRename(S, tensor_name, scale_name, zp_name, data_type) ==
    LET out == is_graph_output(tensor_name)
        q_input == IF out THEN add_quant_input_suffix(tensor_name) ELSE tensor_name
        dq_output == IF out THEN tensor_name ELSE add_dequant_output_suffix(tensor_name)
        S1 == IF out THEN S
              ELSE [S EXCEPT !.nodes = replace_input_of_all_nodes(@, tensor_name, dq_output)]
        S2 == _create_qdq_nodes(S1, q_input, add_quant_output_suffix(tensor_name),
                                add_quant_suffix(tensor_name), add_quant_output_suffix(tensor_name),
                                dq_output, add_dequant_suffix(tensor_name), scale_name, zp_name, None)
    IN SetRecord(S2, tensor_name,
            QDQTensorQuantizedValue(
                QuantizedValue(tensor_name, dq_output, scale_name, zp_name, "Input", None,
                               "None", "None", data_type), None, None))

\* The single pair with a fault: the consumers are rewired after the pair was added.
SinglePair_RewireLast(S, tensor_name, scale_name, zp_name, data_type) ==
    LET out == is_graph_output(tensor_name)
        q_input == IF out THEN add_quant_input_suffix(tensor_name) ELSE tensor_name
        dq_output == IF out THEN tensor_name ELSE add_dequant_output_suffix(tensor_name)
        S1 == _create_qdq_nodes(S, q_input, add_quant_output_suffix(tensor_name),
                                add_quant_suffix(tensor_name), add_quant_output_suffix(tensor_name),
                                dq_output, add_dequant_suffix(tensor_name), scale_name, zp_name, None)
        S2 == IF out
              THEN [S1 EXCEPT !.nodes = replace_output_of_all_nodes(@, tensor_name, q_input)]
              ELSE [S1 EXCEPT !.nodes = replace_input_of_all_nodes(@, tensor_name, dq_output)]
    IN SetRecord(S2, tensor_name,
            QDQTensorQuantizedValue(
                QuantizedValue(tensor_name, dq_output, scale_name, zp_name, "Input", None,
                               "None", "None", data_type), None, None))

\* The else branch of _add_qdq_pair_for_activation: one Q/DQ pair for all the consumers.
SinglePair(S, tensor_name, scale_name, zp_name, data_type) ==
    LET out == is_graph_output(tensor_name)
        q_input == IF out THEN add_quant_input_suffix(tensor_name) ELSE tensor_name
        dq_output == IF out THEN tensor_name ELSE add_dequant_output_suffix(tensor_name)
        S1 == IF out
              THEN [S EXCEPT !.nodes = replace_output_of_all_nodes(@, tensor_name, q_input)]
              ELSE [S EXCEPT !.nodes = replace_input_of_all_nodes(@, tensor_name, dq_output)]
        S2 == _create_qdq_nodes(S1, q_input, add_quant_output_suffix(tensor_name),
                                add_quant_suffix(tensor_name), add_quant_output_suffix(tensor_name),
                                dq_output, add_dequant_suffix(tensor_name), scale_name, zp_name, None)
    IN SetRecord(S2, tensor_name,
            QDQTensorQuantizedValue(
                QuantizedValue(tensor_name, dq_output, scale_name, zp_name, "Input", None,
                               "None", "None", data_type), None, None))

_add_qdq_pair_for_activation(S, tensor_name, scale_name, zp_name, data_type) ==
    IF dedicated_qdq_pair /\ tensor_name \in DOMAIN tensor_to_its_receiving_nodes
       /\ Len(tensor_to_its_receiving_nodes[tensor_name]) > 1
    THEN DedicatedPairs(S, tensor_name, scale_name, zp_name, data_type, 1)
    ELSE SinglePair(S, tensor_name, scale_name, zp_name, data_type)

NodeNameSet(seq) == {seq[i] : i \in DOMAIN seq}

\* The guard with a fault: the combination is let through.
DedicatedUnsupported_Never(tensor_name) == FALSE

\* The guard of the dual-path insertion: dedicated pairs and more than one recorded consumer.
DedicatedUnsupported(tensor_name) ==
    /\ dedicated_qdq_pair
    /\ tensor_name \in DOMAIN tensor_to_its_receiving_nodes
    /\ Len(tensor_to_its_receiving_nodes[tensor_name]) > 1

\* original_recv_nodes with a fault: the converted consumers are not taken out.
OriginalRecvNodes_All(tensor_recv_nodes, convert_recv_nodes_arg) ==
    IF convert_recv_nodes_arg = None THEN {} ELSE tensor_recv_nodes

\* original_recv_nodes: the consumers that keep the original quantized type.
OriginalRecvNodes(tensor_recv_nodes, convert_recv_nodes_arg) ==
    IF convert_recv_nodes_arg = None THEN {}
    ELSE tensor_recv_nodes \ convert_recv_nodes_arg[1]

_add_qdq_ops_for_converted_activation(S, tensor_name, first_scale_name, first_zp_name, scale_data_type, convert_scale_name, convert_zp_name, convert_recv_nodes_arg) ==
    IF tensor_name \notin DOMAIN tensor_to_its_receiving_nodes
    THEN Raise(S, "KeyError: tensor_to_its_receiving_nodes")
    ELSE IF DedicatedUnsupported(tensor_name)
    THEN Raise(S, "ValueError: converted types with dedicated_qdq_pair")
    ELSE
      LET tensor_recv_nodes == NodeNameSet(tensor_to_its_receiving_nodes[tensor_name])
          convert_recv_nodes == IF convert_recv_nodes_arg = None THEN tensor_recv_nodes
                                ELSE convert_recv_nodes_arg[1]
          original_recv_nodes == OriginalRecvNodes(tensor_recv_nodes, convert_recv_nodes_arg)
          all_use_converted == Cardinality(convert_recv_nodes) = Cardinality(tensor_recv_nodes)
          out == is_graph_output(tensor_name)
          \* first Q op
          first_q_input == IF out THEN add_quant_input_suffix(tensor_name) ELSE tensor_name
          S1 == IF out
                THEN [S EXCEPT !.nodes = replace_output_of_all_nodes(@, tensor_name, first_q_input)]
                ELSE S
          first_q_output == add_quant_output_suffix(tensor_name)
          S2 == _create_q_node(S1, first_q_input, first_q_output, add_quant_suffix(tensor_name),
                               first_scale_name, first_zp_name, None)
          \* first DQ op
          first_dq_output == IF out /\ ~all_use_converted THEN tensor_name
                             ELSE add_dequant_output_suffix(tensor_name)
          S3 == IF original_recv_nodes # {} /\ first_dq_output # tensor_name
                THEN [S2 EXCEPT !.nodes = replace_input_of_nodes(@, tensor_name, first_dq_output,
                                                                 original_recv_nodes)]
                ELSE S2
          S4 == _create_dq_node(S3, first_q_output, first_dq_output, add_dequant_suffix(tensor_name),
                                first_scale_name, first_zp_name, None)
          \* clone of the first DQ op when some node uses the original type
          second_q_input == IF all_use_converted THEN first_dq_output
                            ELSE add_quant_input_suffix(tensor_name \o "_convert")
          S5 == IF all_use_converted THEN S4
                ELSE _create_dq_node(S4, first_q_output, second_q_input,
                                     add_dequant_suffix(tensor_name \o "_convert_clone"),
                                     first_scale_name, first_zp_name, None)
          \* second Q op
          second_q_output == add_quant_output_suffix(tensor_name \o "_convert")
          S6 == _create_q_node(S5, second_q_input, second_q_output,
                               add_quant_suffix(tensor_name \o "_convert"),
                               convert_scale_name, convert_zp_name, None)
          \* second DQ op
          second_dq_output == IF out /\ all_use_converted THEN tensor_name
                              ELSE add_dequant_output_suffix(tensor_name \o "_convert")
          S7 == IF convert_recv_nodes # {} /\ second_dq_output # tensor_name
                THEN [S6 EXCEPT !.nodes = replace_input_of_nodes(@, tensor_name, second_dq_output,
                                                                 convert_recv_nodes)]
                ELSE S6
          S8 == _create_dq_node(S7, second_q_output, second_dq_output,
                                add_dequant_suffix(tensor_name \o "_convert"),
                                convert_scale_name, convert_zp_name, None)
          original_quantized_value ==
              QuantizedValue(tensor_name, first_dq_output, first_scale_name, first_zp_name,
                             "Input", None, "None", "None", scale_data_type)
          converted_quantized_value ==
              QuantizedValue(tensor_name, second_dq_output, convert_scale_name, convert_zp_name,
                             "Input", None, "None", "None", scale_data_type)
      IN SetRecord(S8, tensor_name,
              QDQTensorQuantizedValue(original_quantized_value, Some(converted_quantized_value),
                                      Some(convert_recv_nodes)))

\* __make_initializers: the zero-point and the scale of one parameter set become initializers.
make_initializers(S, param_name, params, init_name_suffix) ==
    add_initializer(
        add_initializer(S, param_name \o "_zero_point" \o init_name_suffix,
                        ScaleProto(params.quant_type, 1, params.zero_point)),
        param_name \o "_scale" \o init_name_suffix, ScaleProto("FLOAT", 1, params.scale))

\* _create_quantization_initializers, for a tensor that has quantization parameters.
_create_quantization_initializers(S, param_name) ==
    LET tensor_params == quantization_params[param_name]
        S1 == make_initializers(S, param_name, tensor_params.original, "")
    IN IF tensor_params.converted # None
       THEN make_initializers(S1, param_name, tensor_params.converted[1], "_convert")
       ELSE S1

(***************************************************************************)
(* _quantize_normal_tensors: one turn of the for loop over the copy.       *)
(***************************************************************************)
Cur == scan_copy[scan_i + 1]

Here == St(nodes, initializers, quantized_value_map, "")

\* QuantizeNormal with a fault: an activation without parameters is passed over.
QuantizeNormal_SkipMissing(S, tensor_name, tensor_info) ==
    IF tensor_name \in DOMAIN S.initializers
    THEN _add_qdq_pair_for_initializer(S, tensor_name, tensor_info.tensor_type, tensor_info.axis)
    ELSE IF tensor_name \notin DOMAIN quantization_params
    THEN S
    ELSE
      LET S1 == _create_quantization_initializers(S, tensor_name)
      IN IF quantization_params[tensor_name].converted = None
         THEN _add_qdq_pair_for_activation(S1, tensor_name, tensor_name \o "_scale",
                                           tensor_name \o "_zero_point", tensor_info.data_type)
         ELSE IF tensor_info.data_type # "FLOAT"
         THEN Raise(S1, "AssertionError")
         ELSE _add_qdq_ops_for_converted_activation(
                  S1, tensor_name, tensor_name \o "_scale", tensor_name \o "_zero_point",
                  tensor_info.data_type, tensor_name \o "_scale_convert",
                  tensor_name \o "_zero_point_convert",
                  quantization_params[tensor_name].converted_recv_nodes)

QuantizeNormal(S, tensor_name, tensor_info) ==
    IF tensor_name \in DOMAIN S.initializers
    THEN _add_qdq_pair_for_initializer(S, tensor_name, tensor_info.tensor_type, tensor_info.axis)
    ELSE IF tensor_name \notin DOMAIN quantization_params
    THEN Raise(S, "ValueError: quantization parameters are not specified")
    ELSE
      LET S1 == _create_quantization_initializers(S, tensor_name)
      IN IF quantization_params[tensor_name].converted = None
         THEN _add_qdq_pair_for_activation(S1, tensor_name, tensor_name \o "_scale",
                                           tensor_name \o "_zero_point", tensor_info.data_type)
         ELSE IF tensor_info.data_type # "FLOAT"
         THEN Raise(S1, "AssertionError")
         ELSE _add_qdq_ops_for_converted_activation(
                  S1, tensor_name, tensor_name \o "_scale", tensor_name \o "_zero_point",
                  tensor_info.data_type, tensor_name \o "_scale_convert",
                  tensor_name \o "_zero_point_convert",
                  quantization_params[tensor_name].converted_recv_nodes)

\* The state an insertion wrote, and the jump to "error" when it raised.
Commit(S) ==
    /\ nodes' = S.nodes
    /\ initializers' = S.initializers
    /\ quantized_value_map' = S.qvm
    /\ err' = S.err
    /\ pc' = IF S.err # "" THEN "error" ELSE pc

\* NormalStep with a fault: the entry of an initializer stays in the registry.
NormalStep_KeepInitializer ==
    /\ pc = "normal" /\ scan_i < Len(scan_copy)
    /\ LET tensor_name == Cur.name
           tensor_info == Cur.info
           skip == tensor_name \in DOMAIN quantized_value_map \/ tensor_info.is_shared
           S == IF skip THEN Here ELSE QuantizeNormal(Here, tensor_name, tensor_info)
       IN /\ Commit(S)
          /\ tensors_to_quantize' =
                 IF skip \/ S.err # "" \/ tensor_name \in DOMAIN initializers
                 THEN tensors_to_quantize
                 ELSE Del(tensors_to_quantize, tensor_name)
          /\ scan_i' = IF S.err # "" THEN scan_i ELSE scan_i + 1
    /\ UNCHANGED <<bias_to_quantize, nodes_to_remove, tensor_to_its_receiving_nodes, config,
                   node_idx, visiting, marks, scan_copy, bias_i, locals>>

NormalStep ==
    /\ pc = "normal" /\ scan_i < Len(scan_copy)
    /\ LET tensor_name == Cur.name
           tensor_info == Cur.info
           skip == tensor_name \in DOMAIN quantized_value_map \/ tensor_info.is_shared
           S == IF skip THEN Here ELSE QuantizeNormal(Here, tensor_name, tensor_info)
       IN /\ Commit(S)
          /\ tensors_to_quantize' =
                 IF skip \/ S.err # "" THEN tensors_to_quantize
                 ELSE Del(tensors_to_quantize, tensor_name)
          /\ scan_i' = IF S.err # "" THEN scan_i ELSE scan_i + 1
    /\ UNCHANGED <<bias_to_quantize, nodes_to_remove, tensor_to_its_receiving_nodes, config,
                   node_idx, visiting, marks, scan_copy, bias_i, locals>>

\* NormalDone with a fault: quantize_model goes straight to the bias pass.
NormalDone_SkipSharing ==
    /\ pc = "normal" /\ scan_i = Len(scan_copy)
    /\ pc' = "bias"
    /\ scan_copy' = <<>>
    /\ scan_i' = 0
    /\ UNCHANGED <<graph, registry, tensor_to_its_receiving_nodes, quantized_value_map, config,
                   node_idx, visiting, marks, bias_i, locals, err>>

\* The for loop is over: quantize_model calls _quantize_sharing_param_tensors.
NormalDone ==
    /\ pc = "normal" /\ scan_i = Len(scan_copy)
    /\ pc' = "sharing"
    /\ scan_copy' = <<>>
    /\ scan_i' = 0
    /\ UNCHANGED <<graph, registry, tensor_to_its_receiving_nodes, quantized_value_map, config,
                   node_idx, visiting, marks, bias_i, locals, err>>

(***************************************************************************)
(* _quantize_sharing_param_tensors: while self.tensors_to_quantize, a for  *)
(* loop over a copy of it.                                                 *)
(***************************************************************************)
AtWhile == pc = "sharing" /\ scan_i = Len(scan_copy)

\* The while test holds: the for loop starts over a new copy.
SharingScan ==
    /\ AtWhile /\ tensors_to_quantize # <<>>
    /\ scan_copy' = tensors_to_quantize
    /\ scan_i' = 0
    /\ UNCHANGED <<graph, registry, tensor_to_its_receiving_nodes, quantized_value_map, config,
                   pc, node_idx, visiting, marks, bias_i, locals, err>>

\* The while test fails: quantize_model goes on to the bias pass, or past it.
SharingDone ==
    /\ AtWhile /\ tensors_to_quantize = <<>>
    /\ pc' = IF quantize_bias THEN "bias" ELSE "remove"
    /\ UNCHANGED <<graph, registry, tensor_to_its_receiving_nodes, quantized_value_map, config,
                   node_idx, visiting, marks, scan_copy, scan_i, bias_i, locals, err>>

\* QuantizeShared with a fault: the tensor's own parameter names are used.
QuantizeShared_OwnNames(S, tensor_name, provider_value) ==
    IF is_input_a_initializer(S.initializers, tensor_name)
    THEN Raise(S, "ValueError: shared mode is not supported for weight")
    ELSE IF tensor_name \in DOMAIN quantization_params
            /\ quantization_params[tensor_name].converted # None
    THEN _add_qdq_ops_for_converted_activation(
             make_initializers(S, tensor_name, quantization_params[tensor_name].converted[1],
                               "_convert"),
             tensor_name, tensor_name \o "_scale", tensor_name \o "_zero_point", "FLOAT",
             tensor_name \o "_scale_convert", tensor_name \o "_zero_point_convert",
             quantization_params[tensor_name].converted_recv_nodes)
    ELSE _add_qdq_pair_for_activation(S, tensor_name, tensor_name \o "_scale",
                                      tensor_name \o "_zero_point", "None")

\* The body of the sharing loop for a tensor whose provider is resolved.
QuantizeShared(S, tensor_name, provider_value) ==
    IF is_input_a_initializer(S.initializers, tensor_name)
    THEN Raise(S, "ValueError: shared mode is not supported for weight")
    ELSE IF tensor_name \in DOMAIN quantization_params
            /\ quantization_params[tensor_name].converted # None
    THEN _add_qdq_ops_for_converted_activation(
             make_initializers(S, tensor_name, quantization_params[tensor_name].converted[1],
                               "_convert"),
             tensor_name, provider_value.scale_name, provider_value.zp_name, "FLOAT",
             tensor_name \o "_scale_convert", tensor_name \o "_zero_point_convert",
             quantization_params[tensor_name].converted_recv_nodes)
    ELSE _add_qdq_pair_for_activation(S, tensor_name, provider_value.scale_name,
                                      provider_value.zp_name, "None")

\* Ready with a fault: the provider's node is looked up instead of its tensor.
Ready_NodeName(tensor_info, qvm) ==
    /\ tensor_info.quant_para_provider # None
    /\ tensor_info.quant_para_provider[1].node_name \in DOMAIN qvm

\* The provider of a registry entry is resolved.
Ready(tensor_info, qvm) ==
    /\ tensor_info.quant_para_provider # None
    /\ tensor_info.quant_para_provider[1].input_name \in DOMAIN qvm

SharingStep ==
    /\ pc = "sharing" /\ scan_i < Len(scan_copy)
    /\ LET tensor_name == Cur.name
           tensor_info == Cur.info
           ready == Ready(tensor_info, quantized_value_map)
           provider == tensor_info.quant_para_provider[1]
           value == get_for_consumer(quantized_value_map[provider.input_name], provider.node_name)
           S == IF ready THEN QuantizeShared(Here, tensor_name, value) ELSE Here
       IN /\ Commit(S)
          /\ tensors_to_quantize' =
                 IF ready THEN Del(tensors_to_quantize, tensor_name) ELSE tensors_to_quantize
          /\ quant_provider' = tensor_info.quant_para_provider
          /\ quantized_value' = IF ready THEN Some(value) ELSE quantized_value
          /\ scan_i' = IF S.err # "" THEN scan_i ELSE scan_i + 1
    /\ UNCHANGED <<bias_to_quantize, nodes_to_remove, tensor_to_its_receiving_nodes, config,
                   node_idx, visiting, marks, scan_copy, bias_i>>

(***************************************************************************)
(* _quantize_bias_tensors: one turn of the for loop.                       *)
(***************************************************************************)
\* What quantize_bias_static_impl reports about the quantized bias: the kind of node that
\* brings it back to float and its quantized element type.
BiasKind(node_type, node_qtype) == [node_type |-> node_type, node_qtype |-> node_qtype]

BiasKinds ==
    {BiasKind("DequantizeLinear", "INT32"), BiasKind("None", "INT32"), BiasKind("Cast", "FLOAT16"),
     BiasKind("DequantizeLinear", "FLOAT"), BiasKind("Gather", "INT32")}

\* BaseQuantizer.quantize_bias_static_impl: the quantized bias and its scale and zero point.
quantize_bias_static_impl(S, bias_name, input_scale, weight_scale, beta) ==
    add_initializer(
        add_initializer(
            add_initializer(S, bias_name \o "_quantized",
                            TensorProto("INT32", S.initializers[bias_name].size)),
            bias_name \o "_quantized_scale",
            ScaleProto("FLOAT", weight_scale.size, input_scale.value * weight_scale.value * beta)),
        bias_name \o "_quantized_zero_point", ScaleProto("INT32", weight_scale.size, 0))

\* quantize_bias_static with a fault: the input's original scale is taken for every node.
quantize_bias_static_OriginalInput(S, node_name, bias_name, input_name, weight_name, beta, kind) ==
    IF bias_name \in DOMAIN S.qvm THEN S
    ELSE IF weight_name \notin DOMAIN S.qvm THEN Raise(S, "KeyError: weight_name")
    ELSE IF S.qvm[weight_name].original.scale_name \notin DOMAIN S.initializers
    THEN Raise(S, "AttributeError: weight scale")
    ELSE IF input_name \notin DOMAIN S.qvm THEN Raise(S, "KeyError: input_name")
    ELSE IF get_for_consumer(S.qvm[input_name], node_name).scale_name \notin DOMAIN S.initializers
    THEN Raise(S, "AttributeError: input scale")
    ELSE
      LET weight_scale == S.initializers[S.qvm[weight_name].original.scale_name]
          input_scale == S.initializers[S.qvm[input_name].original.scale_name]
          size == weight_scale.size
          S1 == quantize_bias_static_impl(S, bias_name, input_scale, weight_scale, beta)
          value == QuantizedValue(bias_name, bias_name \o "_quantized",
                                  bias_name \o "_quantized_scale",
                                  bias_name \o "_quantized_zero_point", "Initializer",
                                  IF size > 1 THEN Some(0) ELSE None,
                                  kind.node_type, kind.node_qtype, "None")
      IN SetRecord(S1, bias_name, QDQTensorQuantizedValue(value, None, None))

quantize_bias_static(S, node_name, bias_name, input_name, weight_name, beta, kind) ==
    IF bias_name \in DOMAIN S.qvm THEN S
    ELSE IF weight_name \notin DOMAIN S.qvm THEN Raise(S, "KeyError: weight_name")
    ELSE IF S.qvm[weight_name].original.scale_name \notin DOMAIN S.initializers
    THEN Raise(S, "AttributeError: weight scale")
    ELSE IF input_name \notin DOMAIN S.qvm THEN Raise(S, "KeyError: input_name")
    ELSE IF get_for_consumer(S.qvm[input_name], node_name).scale_name \notin DOMAIN S.initializers
    THEN Raise(S, "AttributeError: input scale")
    ELSE
      LET weight_scale == S.initializers[S.qvm[weight_name].original.scale_name]
          input_scale == S.initializers[get_for_consumer(S.qvm[input_name], node_name).scale_name]
          size == weight_scale.size
          S1 == quantize_bias_static_impl(S, bias_name, input_scale, weight_scale, beta)
          value == QuantizedValue(bias_name, bias_name \o "_quantized",
                                  bias_name \o "_quantized_scale",
                                  bias_name \o "_quantized_zero_point", "Initializer",
                                  IF size > 1 THEN Some(0) ELSE None,
                                  kind.node_type, kind.node_qtype, "None")
      IN SetRecord(S1, bias_name, QDQTensorQuantizedValue(value, None, None))

\* BiasNode with a fault: a DQ node is emitted whatever the record says.
BiasNode_AlwaysDQ(S, bias_name, init) ==
    LET quant_value == S.qvm[bias_name].original
    IN add_node(S, Node(add_dequant_suffix(bias_name), "DequantizeLinear",
                        <<quant_value.q_name, quant_value.scale_name, quant_value.zp_name>>,
                        <<bias_name>>, quant_value.axis))

\* The node that brings the quantized bias back under the bias's own name.
BiasNode(S, bias_name, init) ==
    LET quant_value == S.qvm[bias_name].original
    IN IF quant_value.node_type = "Cast"
       THEN add_node(S, Node(add_dequant_suffix(bias_name), "Cast", <<quant_value.q_name>>,
                             <<bias_name>>, None))
       ELSE IF quant_value.node_type \in {"None", "DequantizeLinear"}
       THEN IF quant_value.node_qtype \in {"FLOAT16", "BFLOAT16", "FLOAT"}
            THEN Raise(S, "RuntimeError: unexpected quantize type")
            ELSE add_node(S, Node(add_dequant_suffix(bias_name), "DequantizeLinear",
                                  <<quant_value.q_name, quant_value.scale_name, quant_value.zp_name>>,
                                  <<bias_name>>, quant_value.axis))
       ELSE Raise(S, "RuntimeError: unexpected operator type")

\* QuantizeBias with a fault: the float initializer of the bias stays in the graph.
QuantizeBias_KeepInitializer(S, b, kind) ==
    LET S1 == quantize_bias_static(S, b.node_name, b.bias_name, b.input_name, b.weight_name,
                                   b.beta, kind)
    IN IF S1.err # "" THEN S1
       ELSE BiasNode(S1, b.bias_name, S1.initializers[b.bias_name])

QuantizeBias(S, b, kind) ==
    LET S1 == quantize_bias_static(S, b.node_name, b.bias_name, b.input_name, b.weight_name,
                                   b.beta, kind)
    IN IF S1.err # "" THEN S1
       ELSE IF b.bias_name \notin DOMAIN S1.initializers
       THEN Raise(S1, "AttributeError: remove_initializer")
       ELSE BiasNode([S1 EXCEPT !.initializers = DictDel(@, b.bias_name)], b.bias_name,
                     S1.initializers[b.bias_name])

BiasStep ==
    /\ pc = "bias" /\ bias_i < Len(bias_to_quantize)
    /\ \E kind \in BiasKinds :
        LET b == bias_to_quantize[bias_i + 1]
            S == IF b.bias_name \in DOMAIN quantized_value_map THEN Here
                 ELSE QuantizeBias(Here, b, kind)
        IN /\ Commit(S)
           /\ bias_i' = IF S.err # "" THEN bias_i ELSE bias_i + 1
    /\ UNCHANGED <<registry, tensor_to_its_receiving_nodes, config, node_idx, visiting, marks,
                   scan_copy, scan_i, locals>>

BiasDone ==
    /\ pc = "bias" /\ bias_i = Len(bias_to_quantize)
    /\ pc' = "remove"
    /\ UNCHANGED <<graph, registry, tensor_to_its_receiving_nodes, quantized_value_map, config,
                   node_idx, visiting, marks, scan_copy, scan_i, bias_i, locals, err>>

(***************************************************************************)
(* The end of quantize_model: the deferred removal, then the cleanup.      *)
(***************************************************************************)
\* ONNXModel.remove_nodes
model_remove_nodes(g, names) == SelectSeq(g, LAMBDA n : n.name \notin Range(names))

remove_nodes ==
    /\ pc = "remove"
    /\ nodes' = model_remove_nodes(nodes, nodes_to_remove)
    /\ pc' = "clean"
    /\ UNCHANGED <<initializers, registry, tensor_to_its_receiving_nodes, quantized_value_map,
                   config, node_idx, visiting, marks, scan_copy, scan_i, bias_i, locals, err>>

\* ONNXModel.clean_initializers: an initializer no node reads is dropped.
clean_initializers(g, inits) ==
    [t \in {x \in DOMAIN inits : \E i \in DOMAIN g : x \in Range(g[i].input)} |-> inits[t]]

\* Finish with a fault: the initializers are pruned whatever AddQDQPairToWeight says.
Finish_AlwaysClean ==
    /\ pc = "clean"
    /\ initializers' = clean_initializers(nodes, initializers)
    /\ pc' = "done"
    /\ UNCHANGED <<nodes, registry, tensor_to_its_receiving_nodes, quantized_value_map, config,
                   node_idx, visiting, marks, scan_copy, scan_i, bias_i, locals, err>>

Finish ==
    /\ pc = "clean"
    /\ initializers' = IF add_qdq_pair_to_weight THEN initializers
                       ELSE clean_initializers(nodes, initializers)
    /\ pc' = "done"
    /\ UNCHANGED <<nodes, registry, tensor_to_its_receiving_nodes, quantized_value_map, config,
                   node_idx, visiting, marks, scan_copy, scan_i, bias_i, locals, err>>

Next ==
    \/ SkipNode
    \/ BeginNode
    \/ quantize_activation_tensor
    \/ quantize_output_same_as_input
    \/ quantize_weight_tensor
    \/ quantize_weight_tensor_per_channel
    \/ quantize_bias_tensor
    \/ remove_node
    \/ try_replacing_upstream_output
    \/ EndNode
    \/ EndMarking
    \/ NormalStep
    \/ NormalDone
    \/ SharingScan
    \/ SharingStep
    \/ SharingDone
    \/ BiasStep
    \/ BiasDone
    \/ remove_nodes
    \/ Finish

Spec == Init /\ [][Next]_vars

FairSpec == Spec /\ WF_vars(Next)

(***************************************************************************)
(* The sharing-provider graph of a registry: an entry points at the entry  *)
(* of its provider's tensor.                                               *)
(***************************************************************************)
Info(d, t) == d[Get(d, t)].info

RECURSIVE Follow(_, _, _)
\* The tensor reached from t after k provider edges inside the registry, if any.
Follow(d, t, k) ==
    IF k = 0 THEN Some(t)
    ELSE IF ~Has(d, t) THEN None
    ELSE IF Info(d, t).quant_para_provider = None THEN None
    ELSE Follow(d, Info(d, t).quant_para_provider[1].input_name, k - 1)

SharingCycle(d) == \E t \in Keys(d) : \E k \in 1..Len(d) : Has(d, t) /\ Follow(d, t, k) = Some(t)

\* Every entry is shared, from a tensor that has a record or is itself a shared entry, and
\* the provider edges form no cycle.
WellFounded(d, qvm) ==
    /\ \A i \in DOMAIN d :
          /\ d[i].info.quant_para_provider # None
          /\ \/ d[i].info.quant_para_provider[1].input_name \in DOMAIN qvm
             \/ Has(d, d[i].info.quant_para_provider[1].input_name)
    /\ ~SharingCycle(d)

\* A for loop of the sharing pass has just ended and resolved nothing.
ScanStalled == AtWhile /\ scan_copy # <<>> /\ tensors_to_quantize = scan_copy

\* C1: whenever the registry of the sharing pass holds a provider cycle, the pass ends in
\* a fatal error: it does not scan forever.
C1_CycleRaises ==
    [](pc = "sharing" /\ SharingCycle(tensors_to_quantize) => <>(pc = "error"))

\* C3: a full scan of the sharing pass that resolved nothing while entries remain is
\* followed by a fatal error.
C3_StalledScanAborts == [][ScanStalled => pc' = "error"]_vars

\* A step of the sharing pass keeps every entry or gives the entry it drops a record.
DroppedAreRecorded ==
    \A t \in Keys(tensors_to_quantize) :
        Has(tensors_to_quantize', t) \/ t \in DOMAIN quantized_value_map'

\* C2 as stated: from an acyclic provider graph whose providers are recorded or shared
\* entries, the sharing pass never aborts, gives every entry it drops a record and leaves
\* only with an empty registry.
C2_AcyclicResolvesAll ==
    [][(pc = "sharing" /\ WellFounded(tensors_to_quantize, quantized_value_map))
          => /\ pc' # "error"
             /\ DroppedAreRecorded
             /\ (pc' # "sharing" => tensors_to_quantize' = <<>>)]_vars

\* C2, amended: from an acyclic provider graph whose providers are recorded or shared
\* entries, the sharing pass terminates, no full scan of it stalls, and every step either
\* raises inside the insertion of the entry it visits or keeps the graph well founded, gives
\* the entry it drops a record and leaves the pass only with an empty registry.
C2_AcyclicProgress ==
    /\ (pc = "sharing" /\ WellFounded(tensors_to_quantize, quantized_value_map))
          ~> (pc # "sharing")
    /\ [](WellFounded(tensors_to_quantize, quantized_value_map) => ~ScanStalled)
    /\ [][(pc = "sharing" /\ WellFounded(tensors_to_quantize, quantized_value_map))
            => \/ pc' = "error" /\ err' # ""
               \/ /\ WellFounded(tensors_to_quantize', quantized_value_map')
                  /\ DroppedAreRecorded
                  /\ (pc' # "sharing" => tensors_to_quantize' = <<>>)]_vars

\* The record of a tensor whose own provider was a shared tensor: it does not use its own
\* scale name.
SharedRecord(t) ==
    /\ t \in DOMAIN quantized_value_map
    /\ quantized_value_map[t].original.scale_name # t \o "_scale"
    /\ quantized_value_map[t].original.value_type = "Input"

\* A second scan was needed: the last scan held one entry, whose provider was itself
\* resolved by the scan before, and the registry is now empty.
C2_Witness ==
    /\ AtWhile /\ tensors_to_quantize = <<>> /\ Len(scan_copy) = 1
    /\ quant_provider # None
    /\ SharedRecord(quant_provider[1].input_name)
    /\ SharedRecord(scan_copy[1].name)

\* C4: a record of quantized_value_map, once stored, is never replaced or changed.
C4_RecordAssignedOnce ==
    [][\A t \in DOMAIN quantized_value_map :
          t \in DOMAIN quantized_value_map' /\ quantized_value_map'[t] = quantized_value_map[t]]_vars

\* The run is over with records of an activation, of a weight and of a shared tensor.
C4_Witness ==
    /\ pc = "done"
    /\ \E t \in DOMAIN quantized_value_map : SharedRecord(t)
    /\ \E t \in DOMAIN quantized_value_map :
          quantized_value_map[t].original.value_type = "Initializer"
    /\ Cardinality(DOMAIN quantized_value_map) >= 3

\* C5: in the non-shared pass and in the sharing pass, no tensor is both a key of
\* tensors_to_quantize and a key of quantized_value_map.
C5_RegistryDisjointFromRecords ==
    pc \in {"normal", "sharing", "error"} =>
        Keys(tensors_to_quantize) \cap DOMAIN quantized_value_map = {}

\* A record exists while other tensors are still registered.
C5_Witness ==
    /\ pc = "sharing"
    /\ tensors_to_quantize # <<>>
    /\ Cardinality(DOMAIN quantized_value_map) >= 2
    /\ \E t \in DOMAIN quantized_value_map : SharedRecord(t)

(***************************************************************************)
(* get_for_consumer on its own: a record and a consumer name are drawn,    *)
(* the call stores what it returns in quantized_value.                     *)
(***************************************************************************)
SampleValue(q_name, scale_name) ==
    QuantizedValue("T", q_name, scale_name, "T_zero_point", "Input", None, "None", "None", "FLOAT")

SampleOriginals == {SampleValue("T_dq", "T_scale"), SampleValue("T_dq", "P_scale")}

SampleConverted == {SampleValue("T_convert_dq", "T_scale_convert"),
                    SampleValue("T", "T_scale_convert")}

SampleRecords ==
    {QDQTensorQuantizedValue(o, c, r) :
        o \in SampleOriginals,
        c \in {None} \cup {Some(v) : v \in SampleConverted},
        r \in {None} \cup {Some(ns) : ns \in SUBSET NodeNames}}

InitGetForConsumer ==
    /\ nodes = InitialNodes
    /\ initializers = InitialInitializers
    /\ tensors_to_quantize = <<>>
    /\ bias_to_quantize = <<>>
    /\ nodes_to_remove = <<>>
    /\ tensor_to_its_receiving_nodes = <<>>
    /\ quantized_value_map \in {DictSet(<<>>, "T", rec) : rec \in SampleRecords}
    /\ dedicated_qdq_pair = FALSE
    /\ add_qdq_pair_to_weight = FALSE
    /\ quantize_bias = TRUE
    /\ opset_version = 13
    /\ quantization_params = PlainParams
    /\ tensor_quant_overrides = Overridden(quantization_params)
    /\ per_channel = FALSE
    /\ pc = "get_for_consumer"
    /\ node_idx = 1
    /\ visiting = FALSE
    /\ marks = 0
    /\ scan_copy = <<>>
    /\ scan_i = 0
    /\ bias_i = 0
    /\ quantized_value = None
    /\ quant_provider \in {Some(QDQQuantParamProvider("T", n)) : n \in NodeNames \cup {"N0"}}
    /\ err = ""

GetForConsumerCall ==
    /\ pc = "get_for_consumer"
    /\ quantized_value' =
           Some(get_for_consumer(quantized_value_map["T"], quant_provider[1].node_name))
    /\ pc' = "returned"
    /\ UNCHANGED <<graph, registry, tensor_to_its_receiving_nodes, quantized_value_map, config,
                   node_idx, visiting, marks, scan_copy, scan_i, bias_i, quant_provider, err>>

SpecGetForConsumer == InitGetForConsumer /\ [][GetForConsumerCall]_vars

\* C6: get_for_consumer(n) is original when converted is None; converted for every n when
\* converted is set and converted_recv_nodes is None; otherwise converted if and only if n
\* is in converted_recv_nodes, and original for every other n.
C6_GetForConsumer ==
    pc = "returned" =>
        LET self == quantized_value_map["T"]
            n == quant_provider[1].node_name
            returned == quantized_value[1]
        IN /\ self.converted = None => returned = self.original
           /\ (self.converted # None /\ self.converted_recv_nodes = None)
                 => returned = self.converted[1]
           /\ (self.converted # None /\ self.converted_recv_nodes # None)
                 => /\ (returned = self.converted[1]) <=> (n \in self.converted_recv_nodes[1])
                    /\ (n \notin self.converted_recv_nodes[1]) => returned = self.original

\* The call returned the converted value to a node of the receiver list.
C6_Witness ==
    /\ pc = "returned"
    /\ quantized_value_map["T"].converted # None
    /\ quantized_value_map["T"].converted_recv_nodes # None
    /\ quant_provider[1].node_name \in quantized_value_map["T"].converted_recv_nodes[1]
    /\ quantized_value = quantized_value_map["T"].converted

(***************************************************************************)
(* Order of the phases of quantize_model.                                  *)
(***************************************************************************)
NamesOf(g) == {g[i].name : i \in DOMAIN g}

PhaseRank(p) ==
    CASE p = "mark" -> 1 [] p = "normal" -> 2 [] p = "sharing" -> 3 [] p = "bias" -> 4
      [] p = "remove" -> 5 [] p = "clean" -> 6 [] p = "done" -> 7 [] OTHER -> 8

\* C7: a node leaves the graph only in the one remove_nodes step, which runs once, after
\* the non-shared pass, the sharing pass and the bias pass; remove_node only appends to
\* nodes_to_remove.
C7_RemovalDeferred ==
    /\ [][/\ (NamesOf(nodes) \ NamesOf(nodes') # {}) => (pc = "remove" /\ pc' = "clean")
          /\ (pc' = "remove" /\ pc # "remove") => pc \in {"sharing", "bias"}
          /\ (pc = "remove") => pc' = "clean"]_vars
    /\ [](pc = "remove" =>
            /\ tensors_to_quantize = <<>>
            /\ scan_i = Len(scan_copy)
            /\ quantize_bias => bias_i = Len(bias_to_quantize))

\* A node marked for removal was still in the graph during the passes and is gone now.
C7_Witness ==
    /\ pc = "clean"
    /\ nodes_to_remove # <<>>
    /\ Range(nodes_to_remove) \cap NamesOf(nodes) = {}
    /\ quantized_value_map # <<>>

\* C8: the phases run in the order marking, non-shared pass, sharing pass, bias pass,
\* removal, cleanup and never interleave: the non-shared pass starts after the last node
\* was visited, no shared tensor is resolved before the non-shared pass is over, and no
\* bias is processed before the sharing pass is over.
C8_PhaseOrder ==
    /\ [][/\ PhaseRank(pc') >= PhaseRank(pc)
          /\ (pc = "mark" /\ pc' # "mark") => pc' = "normal"
          /\ (pc = "normal" /\ pc' \notin {"normal", "error"}) => pc' = "sharing"
          /\ (pc = "sharing" /\ pc' \notin {"sharing", "error"})
                => pc' = (IF quantize_bias THEN "bias" ELSE "remove")
          /\ (pc = "bias" /\ pc' \notin {"bias", "error"}) => pc' = "remove"
          /\ (tensors_to_quantize' # tensors_to_quantize /\ pc # "mark")
                => pc \in {"normal", "sharing"}
          /\ (pc = "normal") =>
                \A i \in DOMAIN tensors_to_quantize :
                    tensors_to_quantize[i].info.is_shared
                        => /\ Has(tensors_to_quantize', tensors_to_quantize[i].name)
                           /\ tensors_to_quantize[i].name \notin DOMAIN quantized_value_map'
          /\ (bias_i' # bias_i) => pc = "bias"]_vars
    /\ [](/\ pc = "normal" => node_idx > Len(InitialNodes)
          /\ pc = "sharing" =>
                \A i \in DOMAIN tensors_to_quantize : tensors_to_quantize[i].info.is_shared
          /\ pc \in {"bias", "remove", "clean", "done"} => tensors_to_quantize = <<>>
          /\ pc \in {"mark", "normal", "sharing"} => bias_i = 0)

\* The bias pass is reached after the sharing pass resolved a shared tensor.
C8_Witness ==
    /\ pc = "bias"
    /\ quantized_value # None
    /\ \E t \in DOMAIN quantized_value_map : SharedRecord(t)

\* C9: when the bias pass is about to quantize a pending bias, its input tensor and its
\* weight tensor have a record in quantized_value_map.
C9_BiasInputsResolved ==
    (pc = "bias" /\ bias_i < Len(bias_to_quantize)
        /\ bias_to_quantize[bias_i + 1].bias_name \notin DOMAIN quantized_value_map)
    => /\ bias_to_quantize[bias_i + 1].input_name \in DOMAIN quantized_value_map
       /\ bias_to_quantize[bias_i + 1].weight_name \in DOMAIN quantized_value_map

(***************************************************************************)
(* Dedicated pairs.                                                        *)
(***************************************************************************)
\* The Q nodes that read a tensor, and the DQ nodes fed by them.
QNodesOf(t) == {i \in DOMAIN nodes : nodes[i].op_type = "QuantizeLinear" /\ nodes[i].input[1] = t}

DQNodesOf(t) ==
    {i \in DOMAIN nodes :
        /\ nodes[i].op_type = "DequantizeLinear"
        /\ \E q \in QNodesOf(t) : nodes[i].input[1] = nodes[q].output[1]}

Readers(name) == {i \in DOMAIN nodes : name \in Range(nodes[i].input)}

\* The dedicated-pair branch of _add_qdq_pair_for_activation has run for t.
DedicatedDone(t) ==
    /\ pc \in {"normal", "sharing"}
    /\ dedicated_qdq_pair
    /\ t \in DOMAIN quantized_value_map
    /\ quantized_value_map[t].original.value_type = "Input"
    /\ Len(ReceivingNodes(t)) > 1

\* C10: in dedicated-pair mode a tensor with N > 1 recorded consumers has N Q nodes and N
\* DQ nodes, each DQ output is read by exactly one node, each recorded consumer reads
\* exactly one of the DQ outputs, and distinct consumers read distinct DQ outputs.
C10_DedicatedPairs ==
    \A t \in DOMAIN quantized_value_map :
        DedicatedDone(t) =>
            LET N == Len(ReceivingNodes(t))
                outs == {nodes[d].output[1] : d \in DQNodesOf(t)}
            IN /\ Cardinality(QNodesOf(t)) = N
               /\ Cardinality(DQNodesOf(t)) = N
               /\ \A o \in outs : Cardinality(Readers(o)) = 1
               /\ \A c \in Range(ReceivingNodes(t)) :
                     Cardinality({o \in outs : \E i \in Readers(o) : nodes[i].name = c}) = 1
               /\ \A o \in outs : \A i, j \in Readers(o) : nodes[i].name = nodes[j].name

(***************************************************************************)
(* Dual-path insertion.                                                    *)
(***************************************************************************)
HasNode(name) == \E i \in DOMAIN nodes : nodes[i].name = name

\* The output of the node of that name.
OutputOf(name) == nodes[CHOOSE i \in DOMAIN nodes : nodes[i].name = name].output[1]

\* The inputs a node of the graph had before the run.
OrigInput(c) == InitialNodes[CHOOSE j \in DOMAIN InitialNodes : InitialNodes[j].name = c].input

\* The dual-path insertion has run for t.
DualRecord(t) == t \in DOMAIN quantized_value_map /\ quantized_value_map[t].converted # None

\* The node c is to receive the converted variant of t.
ReceivesConverted(t, c) ==
    \/ quantization_params[t].converted_recv_nodes = None
    \/ c \in quantization_params[t].converted_recv_nodes[1]

\* C11: after the dual-path insertion for a tensor, every recorded consumer that is in
\* converted_recv_nodes (every recorded consumer when it is None) reads the output of the
\* second-stage DQ node where it read the tensor, and every other recorded consumer reads
\* the output of the first-stage DQ node there.
C11_DualPathConsumers ==
    \A t \in DOMAIN quantized_value_map :
        DualRecord(t) =>
            /\ HasNode(add_dequant_suffix(t))
            /\ HasNode(add_dequant_suffix(t \o "_convert"))
            /\ \A i \in DOMAIN nodes :
                  nodes[i].name \in Range(ReceivingNodes(t)) =>
                      \A k \in DOMAIN nodes[i].input :
                          OrigInput(nodes[i].name)[k] = t =>
                              nodes[i].input[k] =
                                  IF ReceivesConverted(t, nodes[i].name)
                                  THEN OutputOf(add_dequant_suffix(t \o "_convert"))
                                  ELSE OutputOf(add_dequant_suffix(t))

\* X went through the dual-path insertion with both of its consumers recorded: N3 reads the
\* second-stage DQ output and N1 the first-stage one.
C11_Witness ==
    /\ DualRecord("X")
    /\ quantization_params = ConvertParams
    /\ Range(ReceivingNodes("X")) = {"N1", "N3"}
    /\ \E i \in DOMAIN nodes :
          nodes[i].name = "N3" /\ nodes[i].input[2] = add_dequant_output_suffix("X_convert")
    /\ \E i \in DOMAIN nodes :
          nodes[i].name = "N1" /\ nodes[i].input[1] = add_dequant_output_suffix("X")

\* The emitted DQ nodes whose output is t.
DQNodesWriting(t) ==
    {i \in DOMAIN nodes : nodes[i].op_type = "DequantizeLinear" /\ nodes[i].output[1] = t}

\* Every recorded consumer of t is to receive the converted variant.
AllUseConverted(t) == \A c \in Range(ReceivingNodes(t)) : ReceivesConverted(t, c)

\* C12: after the dual-path insertion for a graph output, exactly one emitted DQ node
\* outputs the tensor's name, the second-stage DQ if every recorded consumer uses the
\* converted variant and the first-stage DQ otherwise, and every node that produced the
\* tensor writes the suffixed Q-input name.
C12_DualPathGraphOutput ==
    \A t \in DOMAIN quantized_value_map :
        (DualRecord(t) /\ is_graph_output(t)) =>
            /\ Cardinality(DQNodesWriting(t)) = 1
            /\ \A i \in DQNodesWriting(t) :
                  nodes[i].name = IF AllUseConverted(t) THEN add_dequant_suffix(t \o "_convert")
                                  ELSE add_dequant_suffix(t)
            /\ \A i \in DOMAIN nodes :
                  nodes[i].op_type \notin {"QuantizeLinear", "DequantizeLinear"}
                      => t \notin Range(nodes[i].output)
            /\ \A i \in DOMAIN nodes :
                  (nodes[i].name \in NodeNames
                     /\ t \in Range(InitialNodes[CHOOSE j \in DOMAIN InitialNodes :
                                        InitialNodes[j].name = nodes[i].name].output))
                      => nodes[i].output = <<add_quant_input_suffix(t)>>

(***************************************************************************)
(* Dedicated pairs together with converted parameters: the run with        *)
(* DedicatedQDQPair on and "convert" overrides.                            *)
(***************************************************************************)
InitDedicatedConvert ==
    /\ nodes = InitialNodes
    /\ initializers = InitialInitializers
    /\ tensors_to_quantize = <<>>
    /\ bias_to_quantize = <<>>
    /\ nodes_to_remove = <<>>
    /\ tensor_to_its_receiving_nodes = <<>>
    /\ quantized_value_map = <<>>
    /\ dedicated_qdq_pair = TRUE
    /\ add_qdq_pair_to_weight = FALSE
    /\ quantize_bias = TRUE
    /\ opset_version = 13
    /\ quantization_params \in {ConvertParams, StrayParams, SubsetParams}
    /\ tensor_quant_overrides = Overridden(quantization_params)
    /\ per_channel = FALSE
    /\ pc = "mark"
    /\ node_idx = 1
    /\ visiting = FALSE
    /\ marks = 0
    /\ scan_copy = <<>>
    /\ scan_i = 0
    /\ bias_i = 0
    /\ quantized_value = None
    /\ quant_provider = None
    /\ err = ""

SpecDedicatedConvert == InitDedicatedConvert /\ [][Next]_vars

\* The tensor has both original and converted parameters.
HasConverted(t) ==
    t \in DOMAIN quantization_params /\ quantization_params[t].converted # None

\* The pass is about to insert the Q/DQ ops of the tensor it visits.
AboutToInsert ==
    /\ pc \in {"normal", "sharing"} /\ scan_i < Len(scan_copy)
    /\ Cur.name \notin DOMAIN initializers
    /\ IF pc = "normal"
       THEN ~Cur.info.is_shared /\ Cur.name \notin DOMAIN quantized_value_map
       ELSE Ready(Cur.info, quantized_value_map)

\* C13: with dedicated pairs on, the insertion for a tensor that has more than one recorded
\* consumer and both original and converted parameters aborts the pass: no node is added
\* and the tensor gets no record.
C13_DedicatedConvertAborts ==
    [][(AboutToInsert /\ dedicated_qdq_pair /\ HasConverted(Cur.name)
          /\ Len(ReceivingNodes(Cur.name)) > 1)
         => /\ pc' = "error" /\ err' # ""
            /\ Len(nodes') = Len(nodes)
            /\ \A i \in DOMAIN nodes' :
                  nodes'[i].op_type \notin {"QuantizeLinear", "DequantizeLinear"}
                      \/ nodes'[i].input[1] \notin
                            {Cur.name, add_quant_input_suffix(Cur.name),
                             add_quant_output_suffix(Cur.name)}
            /\ Cur.name \notin DOMAIN quantized_value_map']_vars

\* The pass was aborted by the dual-path insertion for a tensor with two recorded consumers.
C13_Witness ==
    /\ pc = "error"
    /\ err = "ValueError: converted types with dedicated_qdq_pair"
    /\ dedicated_qdq_pair
    /\ Len(ReceivingNodes(Cur.name)) > 1
    /\ Cur.name \notin DOMAIN quantized_value_map

(***************************************************************************)
(* The single Q/DQ pair of an activation.                                  *)
(***************************************************************************)
\* The single-pair insertion has run for the graph output t: its DQ output is t itself.
SinglePairOutput(t) ==
    /\ t \in DOMAIN quantized_value_map
    /\ is_graph_output(t)
    /\ quantized_value_map[t].converted = None
    /\ quantized_value_map[t].original.value_type = "Input"
    /\ quantized_value_map[t].original.q_name = t

\* The nodes of the graph before the run that are still in it.
OriginalNodes == {i \in DOMAIN nodes : nodes[i].name \in NodeNames}

\* The outputs a node of the graph had before the run.
OrigOutput(c) == InitialNodes[CHOOSE j \in DOMAIN InitialNodes : InitialNodes[j].name = c].output

\* C14: after the single-pair insertion for a graph output Y, Y is the output of the DQ node
\* and of no other node, every node that produced Y writes the suffixed Q-input name, which
\* the Q node reads, and the nodes that read Y still read Y.
C14_GraphOutputSinglePair ==
    \A t \in DOMAIN quantized_value_map :
        SinglePairOutput(t) =>
            /\ \E d \in DOMAIN nodes :
                  /\ nodes[d].name = add_dequant_suffix(t)
                  /\ nodes[d].op_type = "DequantizeLinear"
                  /\ \A i \in DOMAIN nodes : t \in Range(nodes[i].output) <=> i = d
                  /\ \E q \in DOMAIN nodes :
                        /\ nodes[q].name = add_quant_suffix(t)
                        /\ nodes[q].op_type = "QuantizeLinear"
                        /\ nodes[q].input[1] = add_quant_input_suffix(t)
                        /\ nodes[d].input[1] = nodes[q].output[1]
            /\ \A i \in OriginalNodes :
                  /\ t \in Range(OrigOutput(nodes[i].name))
                        => nodes[i].output = <<add_quant_input_suffix(t)>>
                  /\ \A k \in DOMAIN nodes[i].input :
                        OrigInput(nodes[i].name)[k] = t => nodes[i].input[k] = t

\* The run is over: Z went through the single-pair insertion, its producer N2 and its
\* consumer N3 are still in the graph.
C14_Witness ==
    /\ pc = "done"
    /\ SinglePairOutput("Z")
    /\ \E i \in OriginalNodes : nodes[i].name = "N2"
    /\ \E i \in OriginalNodes : nodes[i].name = "N3" /\ nodes[i].input[1] = "Z"

\* The single-pair insertion puts the record of the tensor t, not a graph output, in this
\* step.
SinglePairStep(t) ==
    /\ t \notin DOMAIN quantized_value_map
    /\ t \in DOMAIN quantized_value_map'
    /\ ~is_graph_output(t)
    /\ quantized_value_map'[t].converted = None
    /\ quantized_value_map'[t].original.value_type = "Input"
    /\ quantized_value_map'[t].original.q_name = add_dequant_output_suffix(t)

\* C15: the single-pair insertion for an activation that is not a graph output adds exactly
\* one Q node and one DQ node; the Q node reads the tensor's own name and feeds the DQ node,
\* and every node that read the tensor reads the DQ output afterwards.
C15_SinglePair ==
    [][\A t \in {"X", "Y", "Z", "O", "W", "B"} :
          SinglePairStep(t) =>
              /\ Len(nodes') = Len(nodes) + 2
              /\ LET q == nodes'[Len(nodes) + 1]
                     d == nodes'[Len(nodes) + 2]
                 IN /\ q.op_type = "QuantizeLinear"
                    /\ q.input[1] = t
                    /\ d.op_type = "DequantizeLinear"
                    /\ d.input[1] = q.output[1]
                    /\ d.output = <<add_dequant_output_suffix(t)>>
              /\ \A i \in DOMAIN nodes :
                    /\ nodes'[i].name = nodes[i].name
                    /\ \A k \in DOMAIN nodes[i].input :
                          nodes[i].input[k] = t
                              => nodes'[i].input[k] = add_dequant_output_suffix(t)]_vars

\* X went through the single-pair insertion while N1 and N3 read it: both read the DQ
\* output and the Q node reads X.
C15_Witness ==
    /\ "X" \in DOMAIN quantized_value_map
    /\ quantized_value_map["X"].converted = None
    /\ quantized_value_map["X"].original.q_name = add_dequant_output_suffix("X")
    /\ \E i \in OriginalNodes :
          nodes[i].name = "N1" /\ nodes[i].input[1] = add_dequant_output_suffix("X")
    /\ \E i \in OriginalNodes :
          nodes[i].name = "N3" /\ nodes[i].input[2] = add_dequant_output_suffix("X")
    /\ \E i \in DOMAIN nodes : nodes[i].name = add_quant_suffix("X") /\ nodes[i].input[1] = "X"

(***************************************************************************)
(* The Q/DQ nodes of a weight.                                             *)
(***************************************************************************)
\* The non-shared pass is about to quantize the initializer it visits.
AboutToQuantizeWeight ==
    /\ pc = "normal" /\ scan_i < Len(scan_copy)
    /\ Cur.name \in DOMAIN initializers
    /\ ~Cur.info.is_shared
    /\ Cur.name \notin DOMAIN quantized_value_map

\* Every node that read the tensor t reads the name new after the step.
Rewired(t, new) ==
    \A i \in DOMAIN nodes :
        /\ nodes'[i].name = nodes[i].name
        /\ \A k \in DOMAIN nodes[i].input : nodes[i].input[k] = t => nodes'[i].input[k] = new

\* C16: the insertion for a weight adds, with AddQDQPairToWeight off, exactly one DQ node
\* and no Q node, and with it on one Q node, which reads the float weight, and one DQ node
\* fed by it; in both cases every node that read the weight reads the DQ output afterwards.
C16_WeightNodes ==
    [][(AboutToQuantizeWeight /\ Cur.name \in DOMAIN quantized_value_map') =>
          LET w == Cur.name
              added == Len(nodes') - Len(nodes)
              d == nodes'[Len(nodes')]
          IN /\ d.op_type = "DequantizeLinear"
             /\ d.output = <<add_dequant_output_suffix(w)>>
             /\ Rewired(w, add_dequant_output_suffix(w))
             /\ IF add_qdq_pair_to_weight
                THEN /\ added = 2
                     /\ nodes'[Len(nodes) + 1].op_type = "QuantizeLinear"
                     /\ nodes'[Len(nodes) + 1].input[1] = w
                     /\ d.input[1] = nodes'[Len(nodes) + 1].output[1]
                ELSE /\ added = 1
                     /\ d.input[1] = quantized_value_map'[w].original.q_name
                     /\ \A i \in DOMAIN nodes' : w \notin Range(nodes'[i].input)]_vars

\* With AddQDQPairToWeight on, W has its Q/DQ pair: N1 reads the DQ output and the Q node
\* reads W.
C16_Witness ==
    /\ add_qdq_pair_to_weight
    /\ "W" \in DOMAIN quantized_value_map
    /\ \E i \in OriginalNodes :
          nodes[i].name = "N1" /\ nodes[i].input[2] = add_dequant_output_suffix("W")
    /\ \E i \in DOMAIN nodes :
          nodes[i].name = add_quant_suffix("W") /\ nodes[i].input[1] = "W"

\* C17: the insertion for a weight registered with a per-channel axis aborts when the opset
\* is below 13, with the nodes of the graph untouched and no record for the weight; with
\* opset 13 or above it goes through and the DQ node it adds carries that axis.
C17_PerChannelOpset ==
    [][(AboutToQuantizeWeight /\ Cur.info.axis # None) =>
          IF opset_version < 13
          THEN /\ pc' = "error" /\ err' # ""
               /\ nodes' = nodes
               /\ Cur.name \notin DOMAIN quantized_value_map'
          ELSE /\ pc' # "error"
               /\ Cur.name \in DOMAIN quantized_value_map'
               /\ nodes'[Len(nodes')].name = add_dequant_suffix(Cur.name)
               /\ nodes'[Len(nodes')].op_type = "DequantizeLinear"
               /\ nodes'[Len(nodes')].axis = Cur.info.axis]_vars

\* The run was aborted on the per-channel weight W of a graph of opset 12.
C17_Witness ==
    /\ pc = "error"
    /\ err = "ValueError: per-channel requires opset 13"
    /\ opset_version = 12
    /\ Cur.name = "W" /\ Cur.info.axis = Some(0)
    /\ nodes = InitialNodes

(***************************************************************************)
(* The record of a shared tensor.                                          *)
(***************************************************************************)
\* The value of a record that the node c is served: the converted one if c is to receive
\* it, the original one otherwise.
ServedTo(rec, c) ==
    IF rec.converted # None
       /\ (rec.converted_recv_nodes = None \/ c \in rec.converted_recv_nodes[1])
    THEN rec.converted[1]
    ELSE rec.original

\* The sharing pass is visiting a tensor whose provider has a record.
AboutToShare ==
    /\ pc = "sharing" /\ scan_i < Len(scan_copy)
    /\ Ready(Cur.info, quantized_value_map)

\* C18: the record the sharing pass stores for a tensor has, as its original scale and
\* zero-point names, those of the value its provider's record serves to the provider's
\* node; the step creates no initializer but those of the tensor's own converted variant.
C18_SharedRecordNames ==
    [][(AboutToShare /\ Cur.name \in DOMAIN quantized_value_map') =>
          LET t == Cur.name
              provider == Cur.info.quant_para_provider[1]
              served == ServedTo(quantized_value_map[provider.input_name], provider.node_name)
          IN /\ quantized_value_map'[t].original.scale_name = served.scale_name
             /\ quantized_value_map'[t].original.zp_name = served.zp_name
             /\ (DOMAIN initializers' \ DOMAIN initializers)
                    \subseteq {t \o "_scale_convert", t \o "_zero_point_convert"}]_vars

\* Z shares from X for N3, which receives the converted variant of X: the record of Z
\* carries the converted scale name of X.
C18_Witness ==
    /\ "Z" \in DOMAIN quantized_value_map
    /\ DualRecord("X")
    /\ quantized_value_map["Z"].original.scale_name = "X_scale_convert"
    /\ quantized_value_map["X"].original.scale_name = "X_scale"

(***************************************************************************)
(* The bias pass.                                                          *)
(***************************************************************************)
\* The Cast and DQ nodes whose output is the tensor t.
BiasNodesOf(t) ==
    {i \in DOMAIN nodes :
        nodes[i].op_type \in {"Cast", "DequantizeLinear"} /\ nodes[i].output = <<t>>}

\* C19: when the bias pass is over, every queued bias has a record, exactly one Cast or DQ
\* node whose output is the bias's own name, and no float initializer any more.
C19_BiasConsumedOnce ==
    (pc = "remove" /\ quantize_bias) =>
        \A k \in DOMAIN bias_to_quantize :
            LET bias_name == bias_to_quantize[k].bias_name
            IN /\ bias_name \in DOMAIN quantized_value_map
               /\ Cardinality(BiasNodesOf(bias_name)) = 1
               /\ bias_name \notin DOMAIN initializers

\* The bias pass is about to quantize the pending bias it visits.
AboutToQuantizeBias ==
    /\ pc = "bias" /\ bias_i < Len(bias_to_quantize)
    /\ bias_to_quantize[bias_i + 1].bias_name \notin DOMAIN quantized_value_map

\* C20: the scale stored for a bias is input_scale * weight_scale * beta and its zero point
\* is 0, where input_scale is the scale of the value the input's record serves to the bias's
\* node and weight_scale is the scale of the original value of the weight's record.
C20_BiasScale ==
    [][(AboutToQuantizeBias
          /\ bias_to_quantize[bias_i + 1].bias_name \in DOMAIN quantized_value_map') =>
          LET b == bias_to_quantize[bias_i + 1]
              input_value == ServedTo(quantized_value_map[b.input_name], b.node_name)
              weight_value == quantized_value_map[b.weight_name].original
              bias_value == quantized_value_map'[b.bias_name].original
          IN /\ initializers'[bias_value.scale_name].value =
                    initializers[input_value.scale_name].value
                        * initializers[weight_value.scale_name].value * b.beta
             /\ initializers'[bias_value.zp_name].value = 0]_vars

\* The bias of N1 was quantized with beta = 2 while N1 receives the converted variant of
\* its input X: the bias scale is 3 * 5 * 2.
C20_Witness ==
    /\ "B" \in DOMAIN quantized_value_map
    /\ DualRecord("X")
    /\ "N1" \in quantized_value_map["X"].converted_recv_nodes[1]
    /\ quantized_value_map["B"].original.scale_name \in DOMAIN initializers
    /\ initializers[quantized_value_map["B"].original.scale_name].value = 30

\* The node of the kind op_type that reads the quantized bias of the record and writes the
\* bias's own name.
IsBiasNode(n, op_type, quant_value) ==
    /\ n.name = add_dequant_suffix(quant_value.original_name)
    /\ n.op_type = op_type
    /\ n.input[1] = quant_value.q_name
    /\ n.output = <<quant_value.original_name>>

\* C21: the node the bias pass emits follows the node kind of the bias's record: "Cast"
\* gives a Cast node; None and "DequantizeLinear" give a DQ node carrying the record's axis,
\* or a fatal error when the recorded quantized type is FLOAT, FLOAT16 or BFLOAT16; any
\* other kind is a fatal error.  A fatal error adds no node.
C21_BiasNodeKind ==
    [][(AboutToQuantizeBias
          /\ bias_to_quantize[bias_i + 1].bias_name \in DOMAIN quantized_value_map') =>
          LET quant_value == quantized_value_map'[bias_to_quantize[bias_i + 1].bias_name].original
              emitted == nodes'[Len(nodes')]
              fatal == pc' = "error" /\ err' # "" /\ nodes' = nodes
              added == pc' # "error" /\ Len(nodes') = Len(nodes) + 1
          IN IF quant_value.node_type = "Cast"
             THEN added /\ IsBiasNode(emitted, "Cast", quant_value)
             ELSE IF quant_value.node_type \in {"None", "DequantizeLinear"}
             THEN IF quant_value.node_qtype \in {"FLOAT", "FLOAT16", "BFLOAT16"}
                  THEN fatal
                  ELSE /\ added /\ IsBiasNode(emitted, "DequantizeLinear", quant_value)
                       /\ emitted.axis = quant_value.axis
             ELSE fatal]_vars

\* A bias with a "Cast" record got its Cast node.
C21_Witness ==
    /\ "B" \in DOMAIN quantized_value_map
    /\ quantized_value_map["B"].original.node_type = "Cast"
    /\ \E i \in DOMAIN nodes : IsBiasNode(nodes[i], "Cast", quantized_value_map["B"].original)

(***************************************************************************)
(* Registrations the passes reject.                                        *)
(***************************************************************************)
\* The registry entries of graph initializers that carry a sharing provider.
SharedInitializers ==
    {tensors_to_quantize[i].name : i \in
        {j \in DOMAIN tensors_to_quantize :
            /\ tensors_to_quantize[j].name \in DOMAIN initializers
            /\ tensors_to_quantize[j].info.is_shared}}

\* No Q or DQ node was inserted for the tensor t.
NoQDQNodeFor(t) ==
    \A i \in DOMAIN nodes :
        nodes[i].name \notin {add_quant_suffix(t), add_dequant_suffix(t),
                              add_quant_suffix(t \o "_convert"), add_dequant_suffix(t \o "_convert")}

\* C22: once marking has left a graph initializer registered with a sharing provider, the
\* run ends in the fatal error of unsupported sharing for weights, whether or not the
\* provider is ever resolved, and the initializer never gets a record or Q/DQ nodes.
C22_SharedWeightAborts ==
    /\ [](pc \in {"normal", "sharing"} =>
            \A t \in SharedInitializers : t \notin DOMAIN quantized_value_map /\ NoQDQNodeFor(t))
    /\ []((pc = "normal" /\ SharedInitializers # {}) => <>(pc = "error"))

\* The registry entry e is a non-shared activation without quantization parameters.
MissingParams(e) ==
    /\ ~e.info.is_shared
    /\ e.name \notin DOMAIN initializers
    /\ e.name \notin DOMAIN quantization_params

\* C23: the non-shared pass aborts on a registered non-shared activation that has no entry
\* in quantization_params: the step that visits it raises and leaves the nodes, the
\* initializers and the records as they were, and the pass never ends normally with such an
\* entry among those it iterates.
C23_MissingParamsAbort ==
    [][/\ (pc = "normal" /\ scan_i < Len(scan_copy) /\ MissingParams(Cur)
             /\ Cur.name \notin DOMAIN quantized_value_map)
          => /\ pc' = "error"
             /\ err' = "ValueError: quantization parameters are not specified"
             /\ nodes' = nodes
             /\ initializers' = initializers
             /\ quantized_value_map' = quantized_value_map
       /\ (pc = "normal" /\ pc' = "sharing")
          => \A i \in DOMAIN scan_copy : ~MissingParams(scan_copy[i])]_vars

\* The pass was aborted on Y, which was not calibrated, after X got its Q/DQ nodes.
C23_Witness ==
    /\ pc = "error"
    /\ err = "ValueError: quantization parameters are not specified"
    /\ Cur.name = "Y"
    /\ "X" \in DOMAIN quantized_value_map
    /\ NoQDQNodeFor("Y")
    /\ "Y" \notin DOMAIN quantized_value_map

(***************************************************************************)
(* The registry API called on its own, one call after the other on the     *)
(* graph as loaded.  quant_provider holds the tensor and the operation of  *)
(* the last call, quantized_value the sharing provider it was given.       *)
(***************************************************************************)
InitRegistry ==
    /\ nodes = InitialNodes
    /\ initializers = InitialInitializers
    /\ tensors_to_quantize = <<>>
    /\ bias_to_quantize = <<>>
    /\ nodes_to_remove = <<>>
    /\ tensor_to_its_receiving_nodes = <<>>
    /\ quantized_value_map = <<>>
    /\ dedicated_qdq_pair = FALSE
    /\ add_qdq_pair_to_weight = FALSE
    /\ quantize_bias = TRUE
    /\ opset_version = 13
    /\ quantization_params = PlainParams
    /\ tensor_quant_overrides \in {{}, {"B", "Z", "S"}}
    /\ per_channel \in BOOLEAN
    /\ pc = "registry"
    /\ node_idx = 1
    /\ visiting = FALSE
    /\ marks = 0
    /\ scan_copy = <<>>
    /\ scan_i = 0
    /\ bias_i = 0
    /\ quantized_value = None
    /\ quant_provider = None
    /\ err = ""

\* The tensors the calls are made on: two activations, a float and an integer initializer,
\* and the tensor without a type.
RegisteredSample == {"X", "Z", "W", "S", "U"}

RegistryFrame(tensor_name, operation, provider) ==
    /\ pc = "registry" /\ marks < MaxMarks
    /\ marks' = marks + 1
    /\ quant_provider' = Some(QDQQuantParamProvider(tensor_name, operation))
    /\ quantized_value' = provider
    /\ UNCHANGED <<graph, bias_to_quantize, nodes_to_remove, tensor_to_its_receiving_nodes,
                   quantized_value_map, config, pc, node_idx, visiting, scan_copy, scan_i,
                   bias_i, err>>

CallQuantizeActivationTensor ==
    \E tensor_name \in RegisteredSample :
        /\ tensors_to_quantize' =
               quantize_tensor(tensors_to_quantize, initializers, tensor_name, None, "ACTIVATION")
        /\ RegistryFrame(tensor_name, "quantize_activation_tensor", None)

CallQuantizeOutputSameAsInput ==
    \E output_name \in RegisteredSample, input_name \in {"X", "Y"}, node_name \in {"N1", "N2"} :
        LET provider == Some(QDQQuantParamProvider(input_name, node_name))
        IN /\ tensors_to_quantize' =
                  quantize_tensor(tensors_to_quantize, initializers, output_name, provider,
                                  "ACTIVATION")
           /\ RegistryFrame(output_name, "quantize_output_same_as_input", provider)

CallQuantizeWeightTensor ==
    \E tensor_name \in RegisteredSample :
        /\ tensors_to_quantize' =
               quantize_tensor(tensors_to_quantize, initializers, tensor_name, None, "WEIGHT")
        /\ RegistryFrame(tensor_name, "quantize_weight_tensor", None)

CallQuantizeWeightTensorPerChannel ==
    \E tensor_name \in RegisteredSample :
        /\ tensors_to_quantize' =
               quantize_tensor_per_channel(tensors_to_quantize, initializers, tensor_name, 0)
        /\ RegistryFrame(tensor_name, "quantize_weight_tensor_per_channel", None)

\* The tensors try_replacing_upstream_output is called on: Y, U and W are read once, X by two
\* nodes, Z twice by one node, and no node reads O; K and O have no quantization parameters.
UpstreamSample == {"X", "Y", "Z", "U", "W", "O"}

OutputSample == {"Y", "Z", "K", "O"}

\* try_replacing_upstream_output(upstream_output_name, output_name) called on its own.
\* quant_provider holds the two arguments, quantized_value what it returned; nothing is returned when the lookup
\* input_name_to_nodes()[upstream_output_name] raises KeyError, which it does for a tensor
\* that no node reads, once output_name was found in quantization_params.
CallTryReplacingUpstreamOutput ==
    \E upstream_output_name \in UpstreamSample, output_name \in OutputSample :
        LET raised == /\ output_name \in DOMAIN quantization_params
                      /\ input_name_to_nodes(nodes, upstream_output_name) = {}
            replaced == /\ ~raised
                        /\ UpstreamReplaceable(nodes, quantization_params,
                                               upstream_output_name, output_name)
        IN /\ pc = "registry" /\ marks < MaxMarks
           /\ marks' = marks + 1
           /\ quant_provider' = Some([input_name |-> upstream_output_name,
                                      node_name |-> "try_replacing_upstream_output",
                                      output_name |-> output_name])
           /\ nodes' = IF replaced
                       THEN replace_output_of_all_nodes(nodes, upstream_output_name, output_name)
                       ELSE nodes
           /\ tensors_to_quantize' = IF replaced
                                     THEN Del(tensors_to_quantize, upstream_output_name)
                                     ELSE tensors_to_quantize
           /\ quantized_value' = IF raised THEN None ELSE Some([returned |-> replaced])
           /\ err' = IF raised THEN "KeyError" ELSE ""
           /\ pc' = IF raised THEN "error" ELSE pc
           /\ UNCHANGED <<initializers, bias_to_quantize, nodes_to_remove,
                          tensor_to_its_receiving_nodes, quantized_value_map, config, node_idx,
                          visiting, scan_copy, scan_i, bias_i>>

\* The tensors quantize_bias_tensor is called on: the float initializers B and W, the
\* activation Z and the integer initializer S.
BiasSample == {"B", "W", "Z", "S"}

\* quantize_bias_tensor called on its own; quant_provider holds the bias and the operation.
CallQuantizeBiasTensor ==
    \E bias_name \in BiasSample, beta \in {1, 2} :
        LET bias == PendingBias("N1", bias_name, "X", "W", beta)
            after == BiasRegistration(tensors_to_quantize, bias_to_quantize, initializers, bias)
        IN /\ pc = "registry" /\ marks < MaxMarks
           /\ marks' = marks + 1
           /\ quant_provider' = Some([input_name |-> bias_name,
                                      node_name |-> "quantize_bias_tensor", beta |-> beta])
           /\ quantized_value' = None
           /\ tensors_to_quantize' = after.ttq
           /\ bias_to_quantize' = after.btq
           /\ UNCHANGED <<graph, nodes_to_remove, tensor_to_its_receiving_nodes,
                          quantized_value_map, config, pc, node_idx, visiting, scan_copy,
                          scan_i, bias_i, err>>

NextRegistry ==
    \/ CallQuantizeBiasTensor
    \/ CallQuantizeActivationTensor
    \/ CallQuantizeOutputSameAsInput
    \/ CallQuantizeWeightTensor
    \/ CallQuantizeWeightTensorPerChannel
    \/ CallTryReplacingUpstreamOutput

SpecRegistry == InitRegistry /\ [][NextRegistry]_vars

\* The registry d with the entry of the registered tensor t replaced by info, in place.
Replaced(d, t, info) ==
    [i \in DOMAIN d |-> IF d[i].name = t THEN [name |-> t, info |-> info] ELSE d[i]]

\* The entry a registration of t with a sharing provider writes.
SharedInfo(t, provider) ==
    QDQTensorQuantInfo("ACTIVATION", provider, None, _get_tensor_type(initializers, t))

\* The last call was the operation, on a tensor that had a registry entry.
Reregistered(operations) ==
    /\ pc = "registry" /\ marks' = marks + 1
    /\ quant_provider'[1].node_name \in operations
    /\ Has(tensors_to_quantize, quant_provider'[1].input_name)

\* C24: a registration with a sharing provider of a registered tensor replaces its entry,
\* whatever the entry was (a weight, a per-channel weight, another shared entry), and a
\* registration without a provider (quantize_activation_tensor, quantize_weight_tensor) of a
\* registered tensor leaves the registry as it is.
C24_SharedRegistrationWins ==
    [][/\ Reregistered({"quantize_output_same_as_input"}) =>
             tensors_to_quantize' =
                 Replaced(tensors_to_quantize, quant_provider'[1].input_name,
                          SharedInfo(quant_provider'[1].input_name, quantized_value'))
       /\ Reregistered({"quantize_activation_tensor", "quantize_weight_tensor"}) =>
             tensors_to_quantize' = tensors_to_quantize]_vars

\* After two calls W is registered as sharing from X at N1, and the third call,
\* quantize_weight_tensor on W, left the shared entry in place.
C24_Witness ==
    /\ pc = "registry" /\ marks = 3
    /\ quant_provider = Some(QDQQuantParamProvider("W", "quantize_weight_tensor"))
    /\ tensors_to_quantize =
           <<[name |-> "W", info |-> SharedInfo("W", Some(QDQQuantParamProvider("X", "N1")))]>>

\* The tensors of the graph before the run.
TensorNames == UNION {Local(InitialNodes[i]) : i \in DOMAIN InitialNodes}

\* The tensors whose element type is not inferred or is not FLOAT or FLOAT16.
Unquantizable ==
    {t \in TensorNames : _get_tensor_type(InitialInitializers, t) \notin {"FLOAT", "FLOAT16"}}

PerChannelEntries ==
    {i \in DOMAIN tensors_to_quantize : tensors_to_quantize[i].info.axis # None}

\* C26: every registry entry with a per-channel axis names a graph initializer of float
\* kind, and quantize_weight_tensor_per_channel on a tensor that is not an initializer
\* leaves tensors_to_quantize unchanged.
C26_PerChannelOnlyInitializers ==
    /\ [](\A i \in PerChannelEntries :
            /\ tensors_to_quantize[i].name \in DOMAIN initializers
            /\ initializers[tensors_to_quantize[i].name].data_type \in {"FLOAT", "FLOAT16"})
    /\ [][(quantize_weight_tensor_per_channel
             /\ \A t \in SecondInput(CurNode) :
                   t \notin DOMAIN initializers
                   \/ initializers[t].data_type \notin {"FLOAT", "FLOAT16"})
          => tensors_to_quantize' = tensors_to_quantize]_vars

\* W is registered per channel and is the only entry after the policies of N1, N2 (whose
\* second input is the integer initializer S) and N3 (whose second input is the activation
\* X) made one registry call each.
C26_Witness ==
    /\ pc = "mark" /\ visiting /\ CurNode.name = "N3" /\ marks = 3
    /\ bias_to_quantize = <<>> /\ nodes_to_remove = <<>>
    /\ Len(tensors_to_quantize) = 1
    /\ tensors_to_quantize[1].name = "W"
    /\ tensors_to_quantize[1].info.axis = Some(0)
    /\ DOMAIN tensor_to_its_receiving_nodes = {"X", "W", "B", "Y", "S"}

(***************************************************************************)
(* quantize_initializer, quantize_weight_per_channel and                  *)
(* quantize_bias_static called on their own, one call after the other on   *)
(* the graph as loaded.  quant_provider holds the tensor and the operation *)
(* of the last call, quantized_value what the call returned.               *)
(***************************************************************************)
InitCalls ==
    /\ nodes = InitialNodes
    /\ initializers = InitialInitializers
    /\ tensors_to_quantize = <<>>
    /\ bias_to_quantize = <<>>
    /\ nodes_to_remove = <<>>
    /\ tensor_to_its_receiving_nodes = <<>>
    /\ quantized_value_map = <<>>
    /\ dedicated_qdq_pair = FALSE
    /\ add_qdq_pair_to_weight = FALSE
    /\ quantize_bias = TRUE
    /\ opset_version = 13
    /\ quantization_params = PlainParams
    /\ tensor_quant_overrides = Overridden(quantization_params)
    /\ per_channel = FALSE
    /\ pc = "calls"
    /\ node_idx = 1
    /\ visiting = FALSE
    /\ marks = 0
    /\ scan_copy = <<>>
    /\ scan_i = 0
    /\ bias_i = 0
    /\ quantized_value = None
    /\ quant_provider = None
    /\ err = ""

\* What the two weight operations return: (q_name, zp_name, scale_name) of the record.
WeightNames(S, weight_name) ==
    <<S.qvm[weight_name].original.q_name, S.qvm[weight_name].original.zp_name,
      S.qvm[weight_name].original.scale_name>>

\* A call: counted is TRUE for the calls of the three operations, of which a run makes
\* MaxMarks at most.
CallFrame(S, tensor_name, operation, counted) ==
    /\ pc = "calls" /\ (counted => marks < MaxMarks)
    /\ Commit(S)
    /\ marks' = IF counted THEN marks + 1 ELSE marks
    /\ quant_provider' = Some(QDQQuantParamProvider(tensor_name, operation))
    /\ UNCHANGED <<registry, tensor_to_its_receiving_nodes, config, node_idx, visiting,
                   scan_copy, scan_i, bias_i>>

CallQuantizeInitializer ==
    \E weight_name \in {"W", "B"}, qType \in {"INT8", "UINT8"}, keep_float_weight \in BOOLEAN :
        LET S == quantize_initializer(Here, weight_name, qType, 1, keep_float_weight)
        IN /\ CallFrame(S, weight_name, "quantize_initializer", TRUE)
           /\ quantized_value' = Some(WeightNames(S, weight_name))

CallQuantizeWeightPerChannel ==
    \E weight_name \in {"W", "B"}, qType \in {"INT8", "UINT8"}, keep_float_weight \in BOOLEAN :
        LET S == quantize_initializer(Here, weight_name, qType, Channels, keep_float_weight)
        IN /\ CallFrame(S, weight_name, "quantize_weight_per_channel", TRUE)
           /\ quantized_value' = Some(WeightNames(S, weight_name))

CallQuantizeBiasStatic ==
    \E beta \in {1, 2}, kind \in BiasKinds :
        LET S == quantize_bias_static(Here, "N1", "B", "X", "W", beta, kind)
        IN /\ CallFrame(S, "B", "quantize_bias_static", TRUE)
           /\ quantized_value' = IF S.err # "" THEN None
                                 ELSE Some(S.qvm["B"].original.q_name)

\* The Q/DQ pair of the activation X, from which a bias takes its input scale.
CallAddQDQPairForActivation ==
    /\ "X" \notin DOMAIN quantized_value_map
    /\ LET S == QuantizeNormal(Here, "X", QDQTensorQuantInfo("ACTIVATION", None, None, "FLOAT"))
       IN /\ CallFrame(S, "X", "_add_qdq_pair_for_activation", FALSE)
          /\ quantized_value' = None

NextCalls ==
    \/ CallQuantizeInitializer
    \/ CallQuantizeWeightPerChannel
    \/ CallQuantizeBiasStatic
    \/ CallAddQDQPairForActivation

SpecCalls == InitCalls /\ [][NextCalls]_vars

\* The last call was one of the three operations, on a tensor that had a record.
CalledAgain ==
    /\ pc = "calls" /\ marks' = marks + 1
    /\ quant_provider'[1].node_name \in
           {"quantize_initializer", "quantize_weight_per_channel", "quantize_bias_static"}
    /\ quant_provider'[1].input_name \in DOMAIN quantized_value_map

\* C27: quantize_initializer, quantize_weight_per_channel and quantize_bias_static, called
\* on a tensor that has a record, return the stored quantized name (the two weight
\* operations also the stored zero-point and scale names) and change neither
\* quantized_value_map nor the nodes and initializers of the graph.
C27_CallsIdempotent ==
    [][CalledAgain =>
          LET stored == quantized_value_map[quant_provider'[1].input_name].original
          IN /\ pc' = "calls" /\ err' = ""
             /\ quantized_value_map' = quantized_value_map
             /\ nodes' = nodes
             /\ initializers' = initializers
             /\ quantized_value' =
                    IF quant_provider'[1].node_name = "quantize_bias_static"
                    THEN Some(stored.q_name)
                    ELSE Some(<<stored.q_name, stored.zp_name, stored.scale_name>>)]_vars

\* quantize_initializer was called on the bias B after quantize_bias_static had given it its
\* record, and returned the names of the quantized bias.
C27_Witness ==
    /\ pc = "calls"
    /\ quant_provider = Some(QDQQuantParamProvider("B", "quantize_initializer"))
    /\ "B" \in DOMAIN quantized_value_map
    /\ quantized_value_map["B"].original.node_qtype = "INT32"
    /\ quantized_value = Some(<<"B_quantized", "B_quantized_zero_point", "B_quantized_scale">>)

(***************************************************************************)
(* The end of the run.                                                     *)
(***************************************************************************)
\* The tensor t has the record of a weight quantized by _add_qdq_pair_for_initializer.
WeightRecord(t) ==
    /\ t \in DOMAIN quantized_value_map
    /\ quantized_value_map[t].original.value_type = "Initializer"
    /\ quantized_value_map[t].original.scale_name = t \o "_scale"

\* The initializers that no node of the graph reads.
UnusedInitializers == {t \in DOMAIN initializers : Readers(t) = {}}

\* C28: unused initializers are pruned at the end of the run if and only if
\* AddQDQPairToWeight is off, in the step that follows the deferred node removal; with
\* AddQDQPairToWeight on, every quantized weight keeps its float initializer, which its Q
\* node reads.
C28_CleanupAfterRemoval ==
    /\ [][/\ (DOMAIN initializers \ DOMAIN initializers' # {})
                => (pc = "bias" \/ (pc = "clean" /\ ~add_qdq_pair_to_weight))
          /\ (pc = "clean" /\ add_qdq_pair_to_weight) => initializers' = initializers
          /\ (pc = "clean" /\ ~add_qdq_pair_to_weight)
                => DOMAIN initializers' = DOMAIN initializers \ UnusedInitializers
          /\ (pc' = "clean" /\ pc # "clean")
                => (pc = "remove" /\ nodes' = model_remove_nodes(nodes, nodes_to_remove))]_vars
    /\ []((pc = "done" /\ ~add_qdq_pair_to_weight) => UnusedInitializers = {})
    /\ [](add_qdq_pair_to_weight =>
            \A t \in DOMAIN quantized_value_map :
                WeightRecord(t) =>
                    /\ t \in DOMAIN initializers
                    /\ initializers[t].data_type \in {"FLOAT", "FLOAT16"}
                    /\ \E i \in DOMAIN nodes :
                          /\ nodes[i].name = add_quant_suffix(t)
                          /\ nodes[i].op_type = "QuantizeLinear"
                          /\ nodes[i].input[1] = t)

\* The run is over with AddQDQPairToWeight on: the Q node of W reads the float W, and S,
\* which only the removed node N2 read, was not pruned.
C28_Witness ==
    /\ pc = "done"
    /\ add_qdq_pair_to_weight
    /\ WeightRecord("W")
    /\ \E i \in DOMAIN nodes : nodes[i].name = add_quant_suffix("W") /\ nodes[i].input[1] = "W"
    /\ ~HasNode("N2")
    /\ "S" \in UnusedInitializers

\* C29: when the non-shared pass ends without error, every entry left in
\* tensors_to_quantize is a shared entry: each non-shared entry the pass iterated,
\* initializer or activation, is out of the registry and has its record, and the sharing
\* pass never holds a non-shared entry.
C29_OnlySharedRemain ==
    /\ [][(pc = "normal" /\ pc' = "sharing") =>
            /\ \A i \in DOMAIN tensors_to_quantize' : tensors_to_quantize'[i].info.is_shared
            /\ \A i \in DOMAIN scan_copy :
                  ~scan_copy[i].info.is_shared =>
                      /\ ~Has(tensors_to_quantize', scan_copy[i].name)
                      /\ scan_copy[i].name \in DOMAIN quantized_value_map'
            /\ \A i \in DOMAIN scan_copy :
                  scan_copy[i].info.is_shared =>
                      /\ Has(tensors_to_quantize', scan_copy[i].name)
                      /\ scan_copy[i].name \notin DOMAIN quantized_value_map']_vars
    /\ [](pc = "sharing" =>
            \A i \in DOMAIN tensors_to_quantize :
                tensors_to_quantize[i].info.quant_para_provider # None)

\* The non-shared pass has just ended: the weight W and the activation X have their records
\* and the one entry left is shared.
C29_Witness ==
    /\ pc = "sharing" /\ scan_copy = <<>>
    /\ {"W", "X"} \subseteq DOMAIN quantized_value_map
    /\ Len(tensors_to_quantize) = 1
    /\ tensors_to_quantize[1].info.is_shared
    /\ quantized_value = None

(***************************************************************************)
(* Shape of the graph after an insertion.                                  *)
(***************************************************************************)
\* The nodes of g that write the name.
Producers(g, name) == {i \in DOMAIN g : name \in Range(g[i].output)}

\* The names the nodes of g write.
Outputs(g) == UNION {Range(g[i].output) : i \in DOMAIN g}

\* What the Q node q of g reads back: its own output and the outputs of the DQ nodes it feeds.
Downstream(g, q) ==
    Range(g[q].output) \cup
        UNION {Range(g[d].output) : d \in {k \in DOMAIN g :
                  g[k].op_type = "DequantizeLinear" /\ g[k].input[1] = g[q].output[1]}}

\* No two nodes of g write the same name, no initializer is written by a node, and no Q node
\* reads its own output or that of the DQ nodes it feeds.
WellFormed(g, inits) ==
    /\ \A name \in Outputs(g) : Cardinality(Producers(g, name)) = 1
    /\ Outputs(g) \cap DOMAIN inits = {}
    /\ \A q \in DOMAIN g :
          g[q].op_type = "QuantizeLinear" => Range(g[q].input) \cap Downstream(g, q) = {}

\* A step of one of the three passes that added nodes to the graph.
InsertionStep == pc \in {"normal", "sharing", "bias"} /\ Len(nodes') > Len(nodes)

\* C30: after every insertion step every name has at most one producer: no two nodes write
\* the same name, no name is both an initializer and a node output, and no inserted Q node
\* reads, directly or through the DQ it feeds, its own output.
C30_SingleProducer == [][InsertionStep => WellFormed(nodes', initializers')]_vars

\* C30, amended: a step of the passes, of the deferred removal or of the cleanup never
\* breaks the shape of the graph: if before the step no two nodes write the same name, no
\* initializer is written by a node and no Q node reads back its own output, the same holds
\* after it.
C30_InsertionPreservesShape ==
    [][(pc # "mark" /\ WellFormed(nodes, initializers)) => WellFormed(nodes', initializers')]_vars

\* The bias pass is over: X has its Q/DQ pair, W its DQ node and B its bias node, and every
\* name of the graph has one producer.
C30_Witness ==
    /\ pc = "remove"
    /\ HasNode(add_quant_suffix("X")) /\ HasNode(add_dequant_suffix("W"))
    /\ Cardinality(BiasNodesOf("B")) = 1
    /\ WellFormed(nodes, initializers)

(***************************************************************************)
(* try_replacing_upstream_output called on its own.                        *)
(***************************************************************************)
\* The last step was a call of try_replacing_upstream_output.
UpstreamCalled ==
    /\ pc = "registry" /\ marks' = marks + 1
    /\ quant_provider'[1].node_name = "try_replacing_upstream_output"

\* The nodes that read the tensor t.
ConsumersOf(g, t) == {i \in DOMAIN g : t \in Range(g[i].input)}

\* C31: try_replacing_upstream_output(up, out) returns True, renames every producer
\* output up to out and removes up from tensors_to_quantize when out has quantization
\* parameters, up has exactly one consumer and up is neither a graph input nor a graph
\* output; in every other case it returns False and changes neither graph nor registry.
C31_UpstreamReplaced ==
    [][UpstreamCalled =>
          LET up == quant_provider'[1].input_name
              out == quant_provider'[1].output_name
          IN IF /\ out \in DOMAIN quantization_params
                /\ Cardinality(ConsumersOf(nodes, up)) = 1
                /\ up \notin graph_inputs \cup graph_outputs
             THEN /\ quantized_value' = Some([returned |-> TRUE])
                  /\ nodes' = [i \in DOMAIN nodes |->
                                  [nodes[i] EXCEPT !.output =
                                      [j \in DOMAIN @ |-> IF @[j] = up THEN out ELSE @[j]]]]
                  /\ ~Has(tensors_to_quantize', up)
                  /\ tensors_to_quantize' = Del(tensors_to_quantize, up)
                  /\ initializers' = initializers
             ELSE /\ quantized_value' = Some([returned |-> FALSE])
                  /\ UNCHANGED <<graph, registry>>]_vars

(***************************************************************************)
(* quantize_bias_tensor called on its own.                                 *)
(***************************************************************************)
\* The last step was a call of quantize_bias_tensor.
BiasTensorCalled ==
    /\ pc = "registry" /\ marks' = marks + 1
    /\ quant_provider'[1].node_name = "quantize_bias_tensor"

\* The graph as loaded has t as a float initializer.
FloatInitializer(t) ==
    t \in DOMAIN InitialInitializers /\ InitialInitializers[t].data_type \in {"FLOAT", "FLOAT16"}

\* The registry entry of a weight without a sharing provider.
WeightInfo(t, axis) == QDQTensorQuantInfo("WEIGHT", None, axis, _get_tensor_type(initializers, t))

\* C32 as stated: quantize_bias_tensor on a bias with user-specified overrides registers it
\* as a weight (per channel with axis 0 when per_channel is set) and never appends it to
\* bias_to_quantize; a bias without overrides is appended only if it is a float
\* initializer, and the call never adds it to tensors_to_quantize.
C32_BiasWithOverridesIsWeight ==
    [][BiasTensorCalled =>
          LET b == quant_provider'[1].input_name
          IN IF b \in tensor_quant_overrides
             THEN /\ Has(tensors_to_quantize', b)
                  /\ Info(tensors_to_quantize', b).tensor_type = "WEIGHT"
                  /\ per_channel => Info(tensors_to_quantize', b).axis = Some(0)
                  /\ bias_to_quantize' = bias_to_quantize
             ELSE /\ tensors_to_quantize' = tensors_to_quantize
                  /\ bias_to_quantize' # bias_to_quantize => FloatInitializer(b)]_vars

\* C32: quantize_bias_tensor on a bias with user-specified overrides never appends to
\* bias_to_quantize and registers the bias as a weight only where the weight registration
\* it calls would: with per_channel set a float initializer gets a weight entry with axis 0
\* in place of any entry it had, and any other tensor is left out; without per_channel a
\* tensor of float type that has no entry gets a weight entry without axis at the end of
\* the registry, and any other tensor leaves the registry as it is.  A bias without
\* overrides is appended to bias_to_quantize exactly if it is a float initializer, and the
\* call does not change tensors_to_quantize.
C32_BiasRegistration ==
    [][BiasTensorCalled =>
          LET b == quant_provider'[1].input_name
              item == PendingBias("N1", b, "X", "W", quant_provider'[1].beta)
          IN IF b \in tensor_quant_overrides
             THEN /\ bias_to_quantize' = bias_to_quantize
                  /\ tensors_to_quantize' =
                         IF per_channel
                         THEN IF FloatInitializer(b)
                              THEN IF Has(tensors_to_quantize, b)
                                   THEN Replaced(tensors_to_quantize, b, WeightInfo(b, Some(0)))
                                   ELSE Append(tensors_to_quantize,
                                               [name |-> b, info |-> WeightInfo(b, Some(0))])
                              ELSE tensors_to_quantize
                         ELSE IF /\ _get_tensor_type(InitialInitializers, b) \in {"FLOAT", "FLOAT16"}
                                 /\ ~Has(tensors_to_quantize, b)
                              THEN Append(tensors_to_quantize,
                                          [name |-> b, info |-> WeightInfo(b, None)])
                              ELSE tensors_to_quantize
             ELSE /\ tensors_to_quantize' = tensors_to_quantize
                  /\ bias_to_quantize' = IF FloatInitializer(b)
                                         THEN Append(bias_to_quantize, item)
                                         ELSE bias_to_quantize]_vars

\* Without per_channel and with overrides on Z, Z was registered as an activation and the
\* second call, quantize_bias_tensor on Z, left that entry as it was and queued nothing.
C32_Witness ==
    /\ pc = "registry" /\ marks = 2
    /\ ~per_channel /\ "Z" \in tensor_quant_overrides
    /\ quant_provider # None /\ quant_provider[1].node_name = "quantize_bias_tensor"
    /\ quant_provider[1].input_name = "Z"
    /\ tensors_to_quantize =
           <<[name |-> "Z", info |-> QDQTensorQuantInfo("ACTIVATION", None, None, "FLOAT")]>>
    /\ bias_to_quantize = <<>>
====
